---- MODULE Spec2Model ----
(***************************************************************************)
(* Incremental build engine of the market-data pipeline                    *)
(* (db_creation/build.py, db_creation/build_common.py, db_creation/steps). *)
(*                                                                         *)
(* The step registry, the dependency index, the planner                    *)
(* (determine_steps_to_run), the executor (run_build), the manifest store  *)
(* and the publish discipline of the step bodies, as a state machine over  *)
(* the contents of the output directory.                                   *)
(***************************************************************************)
EXTENDS Integers, Sequences, FiniteSets, TLC

VARIABLES
    _steps,         \* build_common._steps: the registry, in registration order
    argv,           \* the command line of the current invocation of build.py
    pc,             \* position of the process in main / run_build
    manifest,       \* run_build's local `manifest` dict
    steps_to_run,   \* run_build's local `steps_to_run`
    result,         \* how the last invocation ended: "none", "True", "False", "sys.exit", "uncaught", "killed"
    exit_code,      \* exit status of the last invocation (-1 while none has ended)
    output_dir,     \* TRUE iff OUTPUT_DIR exists
    fs,             \* the top-level entries of OUTPUT_DIR: name -> content
    i,              \* position of run_build's for loop in steps_to_run
    spc,            \* position inside the running step function
    con,            \* number of engine connections run_build holds open
    now,            \* logical clock: one tick per step execution started
    runs,           \* invocations of build.py so far
    faults,         \* injected faults so far (crashes, raised I/O errors, empty outputs)
    trace,          \* history: the events of the current (or last) invocation
    durable,        \* history: the manifest as of the last completed save (or the pre-run document)
    pre_fs,         \* history: the output directory as the current invocation found it
    prev_ok,        \* history: the previous invocation completed every step it planned
    downstream,     \* the set returned by the last call of get_downstream_targets
    prev_dry,       \* history: the plan the previous invocation logged, if it was a dry run of this command line
    visited,        \* get_downstream_targets: the targets added so far
    queue,          \* get_downstream_targets: the targets still to look at
    dl,             \* insider_trades download_file: its locals and the files dest and dest.tmp
    mc,             \* market_cap main: its locals, the pool's futures and the files it writes
    fmc             \* market_cap fetch_market_cap: its locals and the pages it requested

dsvars == <<dl, mc, fmc>>
bvars == <<exit_code, output_dir, fs, i, spc, con, now, runs, faults, trace, durable, pre_fs,
          prev_ok, downstream, prev_dry, visited, queue>>
pvars == <<_steps, argv, pc, manifest, steps_to_run, result>>
evars == <<exit_code, output_dir, fs, i, spc, con, now, runs, faults, trace, durable, pre_fs, prev_ok, downstream, prev_dry, visited, queue, dsvars>>
vars == <<pvars, evars>>

(***************************************************************************)
(* Bounds of the model.                                                    *)
(***************************************************************************)
MaxSteps == 3        \* steps in a generic registry
MaxDeps == 1         \* declared dependencies of a generic step
MaxRequested == 1    \* targets named on the command line
MaxRuns == 3         \* invocations of build.py in one behaviour
MaxFaults == 1       \* crashes, raised errors and empty outputs in one behaviour
MaxNodes == 4        \* steps of a registry handed to get_downstream_targets
MaxFanIn == 2        \* declared dependencies of a step of such a registry
MaxReplanSteps == 2      \* steps of a registry that is planned twice
MaxReplanRequested == 2  \* targets requested in the first of the two calls
MaxReorders == 1         \* times the steps are registered again in another order
MaxChunks == 2           \* chunks of a streamed response body
MaxTickers == 3          \* tickers of one run of the market-cap downloader
MaxWindows == 3          \* full windows a requested date range may span

(***************************************************************************)
(* Small helpers.                                                          *)
(***************************************************************************)
Range(s) == {s[k] : k \in DOMAIN s}

RECURSIVE SetToSeq(_)
SetToSeq(S) ==
    IF S = {} THEN <<>>
    ELSE LET e == CHOOSE e \in S : TRUE IN <<e>> \o SetToSeq(S \ {e})

SeqsUpTo(S, n) == UNION {[1..k -> S] : k \in 0..n}

\* an entry of the event history
Ev(ev, id) == [ev |-> ev, id |-> id]

(***************************************************************************)
(* Step registry: build_common.py:61-71.  A registered step is the tuple   *)
(* (step_id, target, depends_on, func); func is named by the function the  *)
(* decorator wraps.                                                        *)
(***************************************************************************)
Step(step_id, target, depends_on, func) ==
    [step_id |-> step_id, target |-> target, depends_on |-> depends_on, func |-> func]

\* build_common.py:74-80
get_dependency_graph ==
    LET keys == UNION {_steps[k].depends_on : k \in DOMAIN _steps}
    IN  [dep \in keys |-> {_steps[k].target : k \in {j \in DOMAIN _steps : dep \in _steps[j].depends_on}}]

\* graph.get(t, []) at build_common.py:93
graph_get(graph, t) == IF t \in DOMAIN graph THEN graph[t] ELSE {}

\* the while loop of build_common.py:88-94
RECURSIVE bfs(_, _, _)
bfs(graph, seen, todo) ==
    IF todo = <<>> THEN seen
    ELSE LET t == Head(todo)
         IN  IF t \in seen
             THEN bfs(graph, seen, Tail(todo))
             ELSE bfs(graph, seen \cup {t}, Tail(todo) \o SetToSeq(graph_get(graph, t)))

\* a traversal that forgets to follow the dependents of the dependents
get_downstream_targets_direct(target) ==
    graph_get(get_dependency_graph, target) \ {target}

\* a traversal that forgets to discard the starting target
get_downstream_targets_keeps_target(target) ==
    bfs(get_dependency_graph, {}, <<target>>)

\* build_common.py:83-96
get_downstream_targets(target) ==
    bfs(get_dependency_graph, {}, <<target>>) \ {target}

(***************************************************************************)
(* Planner: build.py:37-73.                                                *)
(***************************************************************************)
\* a loop that stops after the first requested target
force_targets_of_first(requested_targets) ==
    IF requested_targets = <<>> THEN {}
    ELSE {Head(requested_targets)} \cup get_downstream_targets(Head(requested_targets))

\* a loop that adds the requested targets and leaves their dependents to the cascade
force_targets_of_requested_only(requested_targets) ==
    Range(requested_targets)

\* build.py:46-49
force_targets_of(requested_targets) ==
    Range(requested_targets)
        \cup UNION {get_downstream_targets(t) : t \in Range(requested_targets)}

\* a pass that treats every earlier target as rebuilt
should_run_always(st, mf, force_targets, rebuilt_this_run) ==
    \/ st.step_id \notin DOMAIN mf
    \/ st.target \in force_targets
    \/ st.depends_on # {}

\* a pass that never looks at rebuilt_this_run
should_run_no_cascade(st, mf, force_targets, rebuilt_this_run) ==
    \/ st.step_id \notin DOMAIN mf
    \/ st.target \in force_targets

\* a pass that takes a step for recorded when the manifest holds as many
\* entries as the registry holds steps
should_run_counts_entries(st, mf, force_targets, rebuilt_this_run) ==
    \/ st.step_id \notin DOMAIN mf /\ Cardinality(DOMAIN mf) < Len(_steps)
    \/ st.target \in force_targets
    \/ \E dep \in st.depends_on : dep \in rebuilt_this_run

\* build.py:55-67
should_run(st, mf, force_targets, rebuilt_this_run) ==
    \/ st.step_id \notin DOMAIN mf
    \/ st.target \in force_targets
    \/ \E dep \in st.depends_on : dep \in rebuilt_this_run

PlanEntry(st) == [step_id |-> st.step_id, target |-> st.target, func |-> st.func]

\* a pass that selects steps but never records their targets as rebuilt
RECURSIVE walk_forgets_rebuilt(_, _, _, _, _)
walk_forgets_rebuilt(k, mf, force_targets, rebuilt_this_run, to_run) ==
    IF k > Len(_steps) THEN to_run
    ELSE IF should_run(_steps[k], mf, force_targets, rebuilt_this_run)
         THEN walk_forgets_rebuilt(k + 1, mf, force_targets, rebuilt_this_run,
                                   Append(to_run, PlanEntry(_steps[k])))
         ELSE walk_forgets_rebuilt(k + 1, mf, force_targets, rebuilt_this_run, to_run)

\* the for loop of build.py:54-71, from registry position k on
RECURSIVE walk(_, _, _, _, _)
walk(k, mf, force_targets, rebuilt_this_run, to_run) ==
    IF k > Len(_steps) THEN to_run
    ELSE IF should_run(_steps[k], mf, force_targets, rebuilt_this_run)
         THEN walk(k + 1, mf, force_targets,
                   rebuilt_this_run \cup {_steps[k].target},
                   Append(to_run, PlanEntry(_steps[k])))
         ELSE walk(k + 1, mf, force_targets, rebuilt_this_run, to_run)

\* a planner without the early return of build.py:42-43
determine_steps_to_run_noflag(mf, requested_targets, full_rebuild) ==
    walk(1, mf, force_targets_of(requested_targets), {}, <<>>)

\* build.py:37-73
determine_steps_to_run(mf, requested_targets, full_rebuild) ==
    IF full_rebuild
    THEN [k \in 1..Len(_steps) |-> PlanEntry(_steps[k])]
    ELSE walk(1, mf, force_targets_of(requested_targets), {}, <<>>)

(***************************************************************************)
(* Manifest entries: build.py:114-117.  completed_at is a logical time.    *)
(***************************************************************************)
Entry(t) == [completed_at |-> t]
EmptyManifest == <<>>

(***************************************************************************)
(* SpecPlan: the planner as a function of a registry, a manifest, the      *)
(* requested targets and the flag.  Init draws the inputs; PlanCall        *)
(* applies determine_steps_to_run.                                         *)
(***************************************************************************)
TargetNames == {"t1", "t2", "t3"}
StepIds == <<"A", "B", "C", "D", "E">>
DepSets == {D \in SUBSET TargetNames : Cardinality(D) <= MaxDeps}

Registries ==
    UNION {{r \in [1..n -> [step_id : Range(StepIds), target : TargetNames,
                            depends_on : DepSets, func : {"fn"}]] :
                \A k \in 1..n : r[k].step_id = StepIds[k]} : n \in 0..MaxSteps}

Args(targets, full, list_steps, dry_run) ==
    [targets |-> targets, full |-> full, list_steps |-> list_steps, dry_run |-> dry_run]

RegisteredIds == {_steps[k].step_id : k \in DOMAIN _steps}

\* step ids of an earlier version of the registry that a manifest may still hold
RetiredIds == {"Z"}

InitPlan ==
    /\ _steps \in Registries
    /\ \E ids \in SUBSET (RegisteredIds \cup RetiredIds) : manifest = [id \in ids |-> Entry(0)]
    /\ \E targets \in SeqsUpTo(TargetNames, MaxRequested), full \in BOOLEAN :
          argv = Args(targets, full, FALSE, FALSE)
    /\ pc = "plan"
    /\ steps_to_run = <<>>
    /\ result = "none"
    /\ exit_code = -1 /\ output_dir = FALSE /\ fs = <<>> /\ i = 0 /\ spc = 0 /\ con = 0
    /\ now = 0 /\ runs = 0 /\ faults = 0 /\ trace = <<>>
    /\ durable = [kind |-> "absent", rows |-> "", stamp |-> 0, doc |-> <<>>]
    /\ pre_fs = <<>> /\ prev_ok = FALSE /\ downstream = {} /\ prev_dry = <<>>
    /\ visited = {} /\ queue = <<>>
    /\ dl = <<>> /\ mc = <<>> /\ fmc = <<>>

\* build.py:82
PlanCall ==
    /\ pc = "plan"
    /\ steps_to_run' = determine_steps_to_run(manifest, argv.targets, argv.full)
    /\ pc' = "planned"
    /\ UNCHANGED <<_steps, argv, manifest, result, evars>>

NextPlan == PlanCall

SpecPlan == InitPlan /\ [][NextPlan]_vars

(***************************************************************************)
(* SpecReplan: the planner called a second time with the requested targets *)
(* reordered or repeated and the manifest entries re-stamped, the registry, *)
(* the manifest keys, the set of requested targets and the flag kept.       *)
(***************************************************************************)
InitReplan ==
    /\ _steps \in {r \in Registries : Len(r) <= MaxReplanSteps}
    /\ \E ids \in SUBSET RegisteredIds : manifest = [id \in ids |-> Entry(0)]
    /\ \E targets \in SeqsUpTo(TargetNames, MaxReplanRequested), full \in BOOLEAN :
          argv = Args(targets, full, FALSE, FALSE)
    /\ pc = "plan"
    /\ steps_to_run = <<>>
    /\ result = "none"
    /\ exit_code = -1 /\ output_dir = FALSE /\ fs = <<>> /\ i = 0 /\ spc = 0 /\ con = 0
    /\ now = 0 /\ runs = 0 /\ faults = 0 /\ trace = <<>>
    /\ durable = [kind |-> "absent", rows |-> "", stamp |-> 0, doc |-> <<>>]
    /\ pre_fs = <<>> /\ prev_ok = FALSE /\ downstream = {} /\ prev_dry = <<>>
    /\ visited = {} /\ queue = <<>>
    /\ dl = <<>> /\ mc = <<>> /\ fmc = <<>>

\* build.py:82, called again
PlanAgain ==
    /\ pc = "planned"
    /\ \E targets \in SeqsUpTo(TargetNames, MaxReplanRequested + 1),
          mf \in [DOMAIN manifest -> {Entry(0), Entry(1)}] :
          /\ Range(targets) = Range(argv.targets)
          /\ argv' = [argv EXCEPT !.targets = targets]
          /\ manifest' = mf
          /\ steps_to_run' = determine_steps_to_run(mf, targets, argv.full)
    /\ UNCHANGED <<_steps, pc, result, evars>>

NextReplan == PlanCall \/ PlanAgain

SpecReplan == InitReplan /\ [][NextReplan]_vars

(***************************************************************************)
(* SpecReorder: the planner called on a registry, and called again on the  *)
(* same steps registered in another order, the manifest, the requested     *)
(* targets and the flag kept.  prev_dry holds the plan of the call before. *)
(***************************************************************************)
Orders(n) == {p \in [1..n -> 1..n] : \A a, b \in 1..n : p[a] = p[b] => a = b}

InitReorder ==
    /\ _steps \in Registries
    /\ \E ids \in SUBSET RegisteredIds : manifest = [id \in ids |-> Entry(0)]
    /\ \E targets \in SeqsUpTo(TargetNames, MaxRequested), full \in BOOLEAN :
          argv = Args(targets, full, FALSE, FALSE)
    /\ pc = "plan"
    /\ steps_to_run = <<>>
    /\ result = "none"
    /\ exit_code = -1 /\ output_dir = FALSE /\ fs = <<>> /\ i = 0 /\ spc = 0 /\ con = 0
    /\ now = 0 /\ runs = 0 /\ faults = 0 /\ trace = <<>>
    /\ durable = [kind |-> "absent", rows |-> "", stamp |-> 0, doc |-> <<>>]
    /\ pre_fs = <<>> /\ prev_ok = FALSE /\ downstream = {} /\ prev_dry = <<>>
    /\ visited = {} /\ queue = <<>>
    /\ dl = <<>> /\ mc = <<>> /\ fmc = <<>>

\* build_common.py:65-71 appending the same steps in the order p
Reorder ==
    /\ pc = "planned"
    /\ runs < MaxReorders
    /\ \E p \in Orders(Len(_steps)) :
          _steps' = [k \in DOMAIN _steps |-> _steps[p[k]]]
    /\ prev_dry' = <<steps_to_run>>
    /\ steps_to_run' = <<>>
    /\ runs' = runs + 1
    /\ pc' = "plan"
    /\ UNCHANGED <<argv, manifest, result, exit_code, output_dir, fs, i, spc, con, now, faults,
                   trace, durable, pre_fs, prev_ok, downstream, visited, queue, dsvars>>

NextReorder == PlanCall \/ Reorder

SpecReorder == InitReorder /\ [][NextReorder]_vars

(***************************************************************************)
(* SpecDownstream: get_downstream_targets as a function of a registry and  *)
(* a target.  Every step produces a target of its own and depends on any   *)
(* targets, its own and later ones included, so the registries hold chains,*)
(* diamonds and cycles.                                                    *)
(***************************************************************************)
NodeTargets == <<"a", "b", "c", "d", "e">>
FanIns == {D \in SUBSET {NodeTargets[k] : k \in 1..MaxNodes} : Cardinality(D) <= MaxFanIn}

\* the registry of n steps in which step k declares the dependencies deps[k]
DownstreamRegistry(n, deps) ==
    [k \in 1..n |-> Step(StepIds[k], NodeTargets[k], deps[k], "fn")]

InitDownstream ==
    /\ \E n \in 0..MaxNodes : \E deps \in [1..n -> FanIns] :
          _steps = DownstreamRegistry(n, deps)
    /\ \E k \in 1..MaxNodes : argv = Args(<<NodeTargets[k]>>, FALSE, FALSE, FALSE)
    /\ pc = "downstream"
    /\ manifest = EmptyManifest
    /\ steps_to_run = <<>>
    /\ result = "none"
    /\ exit_code = -1 /\ output_dir = FALSE /\ fs = <<>> /\ i = 0 /\ spc = 0 /\ con = 0
    /\ now = 0 /\ runs = 0 /\ faults = 0 /\ trace = <<>>
    /\ durable = [kind |-> "absent", rows |-> "", stamp |-> 0, doc |-> <<>>]
    /\ pre_fs = <<>> /\ prev_ok = FALSE /\ downstream = {} /\ prev_dry = <<>>
    /\ visited = {} /\ queue = <<>>
    /\ dl = <<>> /\ mc = <<>> /\ fmc = <<>>

\* build.py:49
DownstreamCall ==
    /\ pc = "downstream"
    /\ downstream' = get_downstream_targets(argv.targets[1])
    /\ pc' = "returned"
    /\ UNCHANGED <<_steps, argv, manifest, steps_to_run, result, exit_code, output_dir, fs, i, spc,
                   con, now, runs, faults, trace, durable, pre_fs, prev_ok, prev_dry, visited, queue, dsvars>>

NextDownstream == DownstreamCall

SpecDownstream == InitDownstream /\ [][NextDownstream]_vars

(***************************************************************************)
(* SpecBfs: the loop of get_downstream_targets, one iteration per step,    *)
(* over the registries and targets of SpecDownstream.  The call is the     *)
(* only thread of control, so it keeps taking steps while it has one.      *)
(***************************************************************************)
\* build_common.py:85-87
BfsEnter ==
    /\ pc = "downstream"
    /\ visited' = {}
    /\ queue' = <<argv.targets[1]>>
    /\ pc' = "while"
    /\ UNCHANGED <<_steps, argv, manifest, steps_to_run, result, exit_code, output_dir, fs, i, spc,
                   con, now, runs, faults, trace, durable, pre_fs, prev_ok, downstream, prev_dry, dsvars>>

\* an iteration that does not look whether the target was visited before
BfsIter_no_check ==
    /\ pc = "while" /\ queue # <<>>
    /\ LET t == Head(queue)
       IN  /\ visited' = visited \cup {t}
           /\ queue' = Tail(queue) \o SetToSeq(graph_get(get_dependency_graph, t))
           /\ trace' = Append(trace, Ev("visit", t))
    /\ UNCHANGED <<_steps, argv, pc, manifest, steps_to_run, result, exit_code, output_dir, fs, i, spc,
                   con, now, runs, faults, durable, pre_fs, prev_ok, downstream, prev_dry, dsvars>>

\* one iteration of the while loop: build_common.py:88-94
BfsIter ==
    /\ pc = "while" /\ queue # <<>>
    /\ LET t == Head(queue)
       IN  IF t \in visited
           THEN /\ queue' = Tail(queue)
                /\ UNCHANGED <<visited, trace>>
           ELSE /\ visited' = visited \cup {t}
                /\ queue' = Tail(queue) \o SetToSeq(graph_get(get_dependency_graph, t))
                /\ trace' = Append(trace, Ev("visit", t))
    /\ UNCHANGED <<_steps, argv, pc, manifest, steps_to_run, result, exit_code, output_dir, fs, i, spc,
                   con, now, runs, faults, durable, pre_fs, prev_ok, downstream, prev_dry, dsvars>>

\* build_common.py:95-96
BfsReturn ==
    /\ pc = "while" /\ queue = <<>>
    /\ downstream' = visited \ {argv.targets[1]}
    /\ pc' = "returned"
    /\ UNCHANGED <<_steps, argv, manifest, steps_to_run, result, exit_code, output_dir, fs, i, spc,
                   con, now, runs, faults, trace, durable, pre_fs, prev_ok, prev_dry, visited, queue, dsvars>>

NextBfs == BfsEnter \/ BfsIter \/ BfsReturn

SpecBfs == InitDownstream /\ [][NextBfs]_vars /\ WF_vars(NextBfs)

(***************************************************************************)
(* SpecRegister: the registry as the step decorator builds it while the    *)
(* step modules are imported.                                              *)
(***************************************************************************)
RegisterIds == {StepIds[1], StepIds[2]}

InitRegister ==
    /\ _steps = <<>>
    /\ argv = Args(<<>>, FALSE, FALSE, FALSE)
    /\ pc = "import"
    /\ manifest = EmptyManifest
    /\ steps_to_run = <<>>
    /\ result = "none"
    /\ exit_code = -1 /\ output_dir = FALSE /\ fs = <<>> /\ i = 0 /\ spc = 0 /\ con = 0
    /\ now = 0 /\ runs = 0 /\ faults = 0 /\ trace = <<>>
    /\ durable = [kind |-> "absent", rows |-> "", stamp |-> 0, doc |-> <<>>]
    /\ pre_fs = <<>> /\ prev_ok = FALSE /\ downstream = {} /\ prev_dry = <<>>
    /\ visited = {} /\ queue = <<>>
    /\ dl = <<>> /\ mc = <<>> /\ fmc = <<>>

\* build_common.py:62 and :69: target -> the ids registered for it, in order
_target_to_steps ==
    [t \in {_steps[k].target : k \in DOMAIN _steps} |->
        LET sel == SelectSeq(_steps, LAMBDA st : st.target = t)
        IN  [k \in DOMAIN sel |-> sel[k].step_id]]

\* build_common.py:65-71: @step(step_id, target, depends_on) applied to a function
step ==
    /\ pc = "import"
    /\ Len(_steps) < MaxSteps
    /\ \E step_id \in RegisterIds, target \in TargetNames, depends_on \in DepSets :
          _steps' = Append(_steps, Step(step_id, target, depends_on, "fn"))
    /\ UNCHANGED <<argv, pc, manifest, steps_to_run, result, evars>>

NextRegister == step

SpecRegister == InitRegister /\ [][NextRegister]_vars

(***************************************************************************)
(* The output directory.  fs maps the name of every existing top-level     *)
(* entry of OUTPUT_DIR to its content: a file or a directory, how much     *)
(* data it holds, the step execution that wrote it, and, for the manifest  *)
(* document, the mapping it stores.                                        *)
(***************************************************************************)
MANIFEST_FILE == ".build_manifest.json"

File(rows, stamp) == [kind |-> "file", rows |-> rows, stamp |-> stamp, doc |-> <<>>]
Dir(rows, stamp) == [kind |-> "dir", rows |-> rows, stamp |-> stamp, doc |-> <<>>]
Json(doc) == [kind |-> "file", rows |-> "json", stamp |-> 0, doc |-> doc]
PartialJson == [kind |-> "file", rows |-> "partial", stamp |-> 0, doc |-> <<>>]
Absent == [kind |-> "absent", rows |-> "", stamp |-> 0, doc |-> <<>>]

exists(f, name) == name \in DOMAIN f
remove(f, name) == [n \in DOMAIN f \ {name} |-> f[n]]
put(f, name, c) == [n \in DOMAIN f \cup {name} |-> IF n = name THEN c ELSE f[n]]
content(f, name) == IF exists(f, name) THEN f[name] ELSE Absent

\* os.rename: a file replaces a file, a directory replaces an empty directory
rename_raises(f, src, dst) ==
    \/ ~exists(f, src)
    \/ /\ exists(f, dst)
       /\ ~(f[src].kind = "file" /\ f[dst].kind = "file")
       /\ ~(f[src].kind = "dir" /\ f[dst].kind = "dir" /\ f[dst].rows = "empty")
rename(f, src, dst) == put(remove(f, src), dst, f[src])

\* str.endswith / str.startswith
endswith(name, suffix) ==
    /\ Len(name) >= Len(suffix)
    /\ SubSeq(name, Len(name) - Len(suffix) + 1, Len(name)) = suffix
startswith(name, prefix) ==
    /\ Len(name) >= Len(prefix)
    /\ SubSeq(name, 1, Len(prefix)) = prefix

\* a cleanup that forgets the backup suffix
IsStale_no_old(name) ==
    \/ endswith(name, ".tmp")
    \/ endswith(name, "_building")
    \/ startswith(name, "_")

\* a cleanup that forgets the staging prefix
IsStale_no_prefix(name) ==
    \/ endswith(name, ".tmp")
    \/ endswith(name, "_old") \/ endswith(name, "_building")

\* a cleanup that also takes hidden entries for residue
IsStale_hidden(name) ==
    \/ endswith(name, ".tmp")
    \/ endswith(name, "_old") \/ endswith(name, "_building")
    \/ startswith(name, "_") \/ startswith(name, ".")

\* the two tests of build_common.py:129 and :135
IsStale(name) ==
    \/ endswith(name, ".tmp")
    \/ endswith(name, "_old") \/ endswith(name, "_building") \/ startswith(name, "_")

\* a save that writes the document in place
save_path_in_place == MANIFEST_FILE

\* build_common.py:113
save_path == MANIFEST_FILE \o ".tmp"

(***************************************************************************)
(* The shipped registry: steps/__init__.py imports the v*.py modules in    *)
(* sorted order and each module registers one step.                        *)
(***************************************************************************)
\* the characters of the module file names, in code point order
Chars == "0123456789_abcdefghijklmnopqrstuvwxyz"

Code(c) == CHOOSE k \in 1..Len(Chars) : SubSeq(Chars, k, k) = c

\* str.__lt__: the first differing character decides, a proper prefix is smaller
lt(a, b) ==
    \E k \in 1..(Len(a) + 1) :
        /\ k <= Len(b)
        /\ SubSeq(a, 1, k - 1) = SubSeq(b, 1, k - 1)
        /\ \/ k = Len(a) + 1
           \/ /\ k <= Len(a)
              /\ Code(SubSeq(a, k, k)) < Code(SubSeq(b, k, k))

\* an import loop that walks the directory listing backwards
RECURSIVE sorted_reverse(_)
sorted_reverse(S) ==
    IF S = {} THEN <<>>
    ELSE LET m == CHOOSE x \in S : \A y \in S \ {x} : lt(y, x)
         IN  <<m>> \o sorted_reverse(S \ {m})

\* sorted(...) of steps/__init__.py:5
RECURSIVE sorted(_)
sorted(S) ==
    IF S = {} THEN <<>>
    ELSE LET m == CHOOSE x \in S : \A y \in S \ {x} : lt(x, y)
         IN  <<m>> \o sorted(S \ {m})

\* the v*.py modules of steps/ and the step each one registers
StepModules ==
    [ v7_insider_trades |-> Step("insider_trades_v2", "insider_trades", {"tickers"}, "build_insider_trades"),
      v3_daily_aggs |-> Step("daily_aggs_v2", "daily_aggs", {"prices"}, "build_daily_aggs"),
      v1_tickers |-> Step("tickers_v1", "tickers", {}, "build_tickers"),
      v6_market_cap |-> Step("market_cap_v2", "market_cap", {"tickers"}, "build_market_cap"),
      v2_prices |-> Step("prices_v2", "prices", {"tickers"}, "build_prices"),
      v5_hundred_day_aggs |-> Step("hundred_day_aggs_v1", "hundred_day_aggs", {"daily_aggs"}, "build_hundred_day_aggs") ]

ShippedSteps ==
    LET order == sorted(DOMAIN StepModules)
    IN  [k \in 1..Len(order) |-> StepModules[order[k]]]

(***************************************************************************)
(* Step bodies, as the sequence of their operations on the output          *)
(* directory.  A write is two operations: the file (or the directory's     *)
(* files) exists but is incomplete from write_begin to write_end.  A       *)
(* checked write verifies every file it writes and raises on an empty one. *)
(***************************************************************************)
Op(op, a, b, kind, reads, checked, n) ==
    [op |-> op, a |-> a, b |-> b, kind |-> kind, reads |-> reads, checked |-> checked, n |-> n]

MkdirOut == <<Op("mkdir_out", "", "", "", {}, FALSE, 0)>>
RmIfExists(a) == <<Op("rm_if_exists", a, "", "", {}, FALSE, 0)>>
Mkdir(a) == <<Op("mkdir", a, "", "dir", {}, FALSE, 0)>>
Write(a, kind, reads, checked) ==
    << Op("write_begin", a, "", kind, reads, checked, 0),
       Op("write_end", a, "", kind, reads, checked, 0) >>
Rename(a, b) == <<Op("rename", a, b, "", {}, FALSE, 0)>>
Rmtree(a) == <<Op("rmtree", a, "", "", {}, FALSE, 0)>>
Verify(a) == <<Op("verify", a, "", "", {}, FALSE, 0)>>
\* if a exists: fall through, else skip the next n operations
IfExists(a, n) == <<Op("if_exists", a, "", "", {}, FALSE, n)>>
Skip(n) == <<Op("skip", "", "", "", {}, FALSE, n)>>

\* a swap that leaves the backup copy behind
swap_in_keeps_backup(final, building) ==
    IfExists(final, 3)
        \o Rename(final, final \o "_old")
        \o Rename(building, final)
        \o Skip(1)
        \o Rename(building, final)

\* v2_prices.py:171-178, v3_daily_aggs.py:76-82
swap_in(final, building) ==
    IfExists(final, 4)
        \o Rename(final, final \o "_old")
        \o Rename(building, final)
        \o Rmtree(final \o "_old")
        \o Skip(1)
        \o Rename(building, final)

\* the COPY ... TO tmp; tmp.rename(dest); verify_parquet(dest) of the single-file steps
publish_file(dest, reads) ==
    Write(dest \o ".tmp", "file", reads, FALSE)
        \o Rename(dest \o ".tmp", dest)
        \o Verify(dest)

\* v1_tickers.py:11-52
build_tickers == MkdirOut \o publish_file("tickers.parquet", {})

\* v2_prices.py:18-184
build_prices ==
    RmIfExists("prices_building")
        \o RmIfExists("_prices_temp_fragments")
        \o Mkdir("_prices_temp_fragments")
        \o Mkdir("prices_building")
        \o Write("_prices_temp_fragments", "dir", {}, TRUE)
        \o Write("prices_building", "dir", {"_prices_temp_fragments"}, FALSE)
        \o swap_in("prices", "prices_building")
        \o Rmtree("_prices_temp_fragments")
        \o Verify("prices")

\* v3_daily_aggs.py:9-84
build_daily_aggs ==
    RmIfExists("daily_aggs_building")
        \o Mkdir("daily_aggs_building")
        \o Write("daily_aggs_building", "dir", {"prices"}, TRUE)
        \o RmIfExists("daily_aggs.parquet")
        \o swap_in("daily_aggs", "daily_aggs_building")

\* v5_hundred_day_aggs.py:8-53
build_hundred_day_aggs == publish_file("hundred_day_aggs.parquet", {"daily_aggs"})

\* a market cap step that publishes under the name of the tickers artifact
build_market_cap_as_tickers == MkdirOut \o publish_file("tickers.parquet", {"tickers.parquet"})

\* v6_market_cap.py:8-40
build_market_cap == MkdirOut \o publish_file("market_cap.parquet", {"tickers.parquet"})

\* v7_insider_trades.py:8-63
build_insider_trades == MkdirOut \o publish_file("insider_trades.parquet", {"tickers.parquet"})

\* func(con) at build.py:106
Program(func) ==
    CASE func = "build_tickers" -> build_tickers
      [] func = "build_prices" -> build_prices
      [] func = "build_daily_aggs" -> build_daily_aggs
      [] func = "build_hundred_day_aggs" -> build_hundred_day_aggs
      [] func = "build_market_cap" -> build_market_cap
      [] func = "build_insider_trades" -> build_insider_trades
      [] OTHER -> <<>>

\* the final path of a target's artifact
FinalPath(target) ==
    IF target \in {"prices", "daily_aggs"} THEN target ELSE target \o ".parquet"

(***************************************************************************)
(* The process: main (build.py:147-187) and run_build (build.py:76-124).   *)
(***************************************************************************)
\* build.py:176
known_targets == {_steps[k].target : k \in DOMAIN _steps}

CurStep == steps_to_run[i]
Prog == Program(CurStep.func)
CurOp == Prog[spc]
InFunc == pc = "func" /\ spc <= Len(Prog)
AtOp(op) == InFunc /\ CurOp.op = op

\* the last invocation planned a build and saved the entry of every planned step
AllPlannedSucceeded ==
    /\ pc = "idle"
    /\ Ev("plan", "") \in Range(trace)
    /\ ~(argv.dry_run /\ steps_to_run # <<>>)
    /\ \A k \in DOMAIN steps_to_run : Ev("saved", steps_to_run[k].step_id) \in Range(trace)

\* the step ids a dry run logged, in the order of its log lines
Reported ==
    LET lines == SelectSeq(trace, LAMBDA e : e.ev \in {"NEW", "REBUILD"})
    IN  [k \in DOMAIN lines |-> lines[k].id]

\* the last invocation was a dry run that logged a plan
DryRunReported ==
    /\ pc = "idle" /\ result = "True"
    /\ argv.dry_run /\ ~argv.list_steps
    /\ steps_to_run # <<>>

\* the process ends: sys.exit, return from main, or an uncaught exception
Ended(res, code) ==
    /\ pc' = "idle"
    /\ result' = res
    /\ exit_code' = code
    /\ con' = 0

Init ==
    /\ _steps = ShippedSteps
    /\ argv = Args(<<>>, FALSE, FALSE, FALSE)
    /\ pc = "idle"
    /\ manifest = EmptyManifest
    /\ steps_to_run = <<>>
    /\ result = "none"
    /\ exit_code = -1
    /\ output_dir = FALSE
    /\ fs = <<>>
    /\ i = 0 /\ spc = 0 /\ con = 0
    /\ now = 0 /\ runs = 0 /\ faults = 0
    /\ trace = <<>>
    /\ durable = Absent
    /\ pre_fs = <<>>
    /\ prev_ok = FALSE
    /\ downstream = {}
    /\ prev_dry = <<>>
    /\ visited = {} /\ queue = <<>>
    /\ dl = <<>> /\ mc = <<>> /\ fmc = <<>>

\* python build.py [targets] [--full] [--list] [--dry-run]: build.py:147-169
Invoke ==
    /\ pc = "idle"
    /\ runs < MaxRuns
    /\ \E targets \in SeqsUpTo(known_targets \cup {"bogus"}, MaxRequested),
          full \in BOOLEAN, list_steps \in BOOLEAN, dry_run \in BOOLEAN :
          /\ argv' = Args(targets, full, list_steps, dry_run)
          /\ prev_dry' = IF /\ DryRunReported
                            /\ argv.targets = targets /\ argv.full = full
                            /\ ~list_steps /\ ~dry_run
                         THEN <<Reported>>
                         ELSE <<>>
    /\ runs' = runs + 1
    /\ pc' = "main"
    /\ manifest' = EmptyManifest /\ steps_to_run' = <<>> /\ i' = 0 /\ spc' = 0
    /\ result' = "none" /\ exit_code' = -1
    /\ trace' = <<>>
    /\ pre_fs' = fs
    /\ prev_ok' = AllPlannedSucceeded
    /\ UNCHANGED <<_steps, output_dir, fs, con, now, faults, durable, downstream, visited, queue, dsvars>>

\* build.py:171-173
ListSteps ==
    /\ pc = "main"
    /\ argv.list_steps
    /\ Ended("listed", 0)
    /\ trace' = Append(trace, Ev("list", ""))
    /\ UNCHANGED <<_steps, argv, manifest, steps_to_run, output_dir, fs, i, spc, now, runs, faults, durable, pre_fs, prev_ok, downstream, prev_dry, visited, queue, dsvars>>

\* build.py:176-179: sys.exit(message) exits with status 1
RejectUnknown ==
    /\ pc = "main"
    /\ ~argv.list_steps
    /\ \E t \in Range(argv.targets) : t \notin known_targets
    /\ Ended("sys.exit", 1)
    /\ trace' = Append(trace, Ev("unknown_target", ""))
    /\ UNCHANGED <<_steps, argv, manifest, steps_to_run, output_dir, fs, i, spc, now, runs, faults, durable, pre_fs, prev_ok, downstream, prev_dry, visited, queue, dsvars>>

\* a main that calls run_build without looking at the target names
Validated_nocheck ==
    /\ pc = "main"
    /\ ~argv.list_steps
    /\ pc' = "cleanup"
    /\ UNCHANGED <<_steps, argv, manifest, steps_to_run, result, evars>>

\* build.py:176-181: every named target is known, run_build is called
Validated ==
    /\ pc = "main"
    /\ ~argv.list_steps
    /\ \A t \in Range(argv.targets) : t \in known_targets
    /\ pc' = "cleanup"
    /\ UNCHANGED <<_steps, argv, manifest, steps_to_run, result, evars>>

\* build_common.py:128-140: one stale entry is removed
CleanupItem ==
    /\ pc = "cleanup"
    /\ output_dir
    /\ \E name \in DOMAIN fs :
          /\ IsStale(name)
          /\ fs' = remove(fs, name)
    /\ UNCHANGED <<pvars, exit_code, output_dir, i, spc, con, now, runs, faults, trace, durable, pre_fs, prev_ok, downstream, prev_dry, visited, queue, dsvars>>

\* build_common.py:126-127 and the end of the loop of :128
CleanupDone ==
    /\ pc = "cleanup"
    /\ ~output_dir \/ \A name \in DOMAIN fs : ~IsStale(name)
    /\ pc' = "load"
    /\ trace' = Append(trace, Ev("cleanup", ""))
    /\ UNCHANGED <<_steps, argv, manifest, steps_to_run, result, exit_code, output_dir, fs, i, spc,
                   con, now, runs, faults, durable, pre_fs, prev_ok, downstream, prev_dry, visited, queue, dsvars>>

\* a loader that keeps only the entries of registered steps
load_manifest_registered_only ==
    IF exists(fs, MANIFEST_FILE)
    THEN [id \in DOMAIN fs[MANIFEST_FILE].doc \cap RegisteredIds |-> fs[MANIFEST_FILE].doc[id]]
    ELSE EmptyManifest

\* build_common.py:104-108
load_manifest == IF exists(fs, MANIFEST_FILE) THEN fs[MANIFEST_FILE].doc ELSE EmptyManifest

\* build.py:80; json.load raises on an incomplete document and nothing catches it
LoadManifest ==
    /\ pc = "load"
    /\ IF ~argv.full /\ exists(fs, MANIFEST_FILE) /\ fs[MANIFEST_FILE].rows # "json"
       THEN /\ Ended("uncaught", 1)
            /\ UNCHANGED manifest
       ELSE /\ manifest' = IF argv.full THEN EmptyManifest ELSE load_manifest
            /\ pc' = "plan"
            /\ UNCHANGED <<result, exit_code, con>>
    /\ trace' = Append(trace, Ev("load", ""))
    /\ UNCHANGED <<_steps, argv, steps_to_run, output_dir, fs, i, spc, now, runs, faults, durable, pre_fs, prev_ok, downstream, prev_dry, visited, queue, dsvars>>

\* build.py:93
dry_run_status(step_id, mf) == IF step_id \notin DOMAIN mf THEN "NEW" ELSE "REBUILD"

\* the log lines of build.py:92-94, one per planned step
dry_run_log(plan, mf) ==
    [k \in DOMAIN plan |-> Ev(dry_run_status(plan[k].step_id, mf), plan[k].step_id)]

\* a run_build that never looks at dry_run
Plan_ignores_dry_run ==
    /\ pc = "plan"
    /\ LET plan == determine_steps_to_run(manifest, argv.targets, argv.full)
       IN  /\ steps_to_run' = plan
           /\ IF plan = <<>>
              THEN /\ pc' = "summary"
                   /\ UNCHANGED <<output_dir, i>>
              ELSE /\ pc' = "step"
                   /\ output_dir' = TRUE
                   /\ i' = 1
    /\ trace' = Append(trace, Ev("plan", ""))
    /\ UNCHANGED <<_steps, argv, manifest, result, exit_code, con, fs, spc, now, runs, faults,
                   durable, pre_fs, prev_ok, downstream, prev_dry, visited, queue, dsvars>>

\* build.py:82-98
Plan ==
    /\ pc = "plan"
    /\ LET plan == determine_steps_to_run(manifest, argv.targets, argv.full)
       IN  /\ steps_to_run' = plan
           /\ IF plan = <<>>
              THEN /\ pc' = "summary"
                   /\ trace' = Append(trace, Ev("plan", ""))
                   /\ UNCHANGED <<result, exit_code, con, output_dir, i>>
              ELSE IF argv.dry_run
              THEN /\ Ended("True", 0)
                   /\ trace' = Append(trace, Ev("plan", "")) \o dry_run_log(plan, manifest)
                   /\ UNCHANGED <<output_dir, i>>
              ELSE /\ pc' = "step"
                   /\ output_dir' = TRUE
                   /\ i' = 1
                   /\ trace' = Append(trace, Ev("plan", ""))
                   /\ UNCHANGED <<result, exit_code, con>>
    /\ UNCHANGED <<_steps, argv, manifest, fs, spc, now, runs, faults, durable, pre_fs, prev_ok, downstream, prev_dry, visited, queue, dsvars>>

\* build.py:100-106: the next planned step starts
StepOpen ==
    /\ pc = "step"
    /\ i <= Len(steps_to_run)
    /\ con' = con + 1
    /\ now' = now + 1
    /\ spc' = 1
    /\ pc' = "func"
    /\ trace' = Append(trace, Ev("call", CurStep.step_id))
    /\ UNCHANGED <<_steps, argv, manifest, steps_to_run, result, exit_code, output_dir, fs, i,
                   runs, faults, durable, pre_fs, prev_ok, downstream, prev_dry, visited, queue, dsvars>>

(***************************************************************************)
(* One operation of the running step function.                             *)
(***************************************************************************)
OpFrame == UNCHANGED <<_steps, argv, manifest, steps_to_run, result, exit_code, i, con, now,
                       runs, trace, durable, pre_fs, prev_ok, downstream, prev_dry, visited, queue, dsvars>>
Advance(n) == pc' = "func" /\ spc' = spc + n
Raise == pc' = "except" /\ spc' = spc

OpMkdirOut ==
    /\ AtOp("mkdir_out")
    /\ output_dir' = TRUE
    /\ Advance(1)
    /\ UNCHANGED <<fs, faults>>
    /\ OpFrame

OpRmIfExists ==
    /\ AtOp("rm_if_exists")
    /\ fs' = remove(fs, CurOp.a)
    /\ Advance(1)
    /\ UNCHANGED <<output_dir, faults>>
    /\ OpFrame

OpMkdir ==
    /\ AtOp("mkdir")
    /\ IF exists(fs, CurOp.a)
       THEN Raise /\ UNCHANGED fs
       ELSE Advance(1) /\ fs' = put(fs, CurOp.a, Dir("empty", now))
    /\ UNCHANGED <<output_dir, faults>>
    /\ OpFrame

\* read_parquet over a path or pattern that matches no file raises
unreadable(f, r) == ~exists(f, r) \/ (f[r].kind = "dir" /\ f[r].rows = "empty")

\* the read of an input that is not there raises; else the output starts to exist
OpWriteBegin ==
    /\ AtOp("write_begin")
    /\ IF \E r \in CurOp.reads : unreadable(fs, r)
       THEN Raise /\ UNCHANGED fs
       ELSE Advance(1) /\ fs' = put(fs, CurOp.a, [kind |-> CurOp.kind, rows |-> "partial",
                                                  stamp |-> now, doc |-> <<>>])
    /\ UNCHANGED <<output_dir, faults>>
    /\ OpFrame

\* the output is complete; the raw inputs decide whether it holds any row
OpWriteEnd ==
    /\ AtOp("write_end")
    /\ \/ /\ fs' = put(fs, CurOp.a, [fs[CurOp.a] EXCEPT !.rows = "ok"])
          /\ UNCHANGED faults
       \/ /\ ~CurOp.checked
          /\ faults < MaxFaults
          /\ faults' = faults + 1
          /\ fs' = put(fs, CurOp.a, [fs[CurOp.a] EXCEPT !.rows = "empty"])
    /\ Advance(1)
    /\ UNCHANGED output_dir
    /\ OpFrame

OpRename ==
    /\ AtOp("rename")
    /\ IF rename_raises(fs, CurOp.a, CurOp.b)
       THEN Raise /\ UNCHANGED fs
       ELSE Advance(1) /\ fs' = rename(fs, CurOp.a, CurOp.b)
    /\ UNCHANGED <<output_dir, faults>>
    /\ OpFrame

OpRmtree ==
    /\ AtOp("rmtree")
    /\ IF exists(fs, CurOp.a)
       THEN Advance(1) /\ fs' = remove(fs, CurOp.a)
       ELSE Raise /\ UNCHANGED fs
    /\ UNCHANGED <<output_dir, faults>>
    /\ OpFrame

\* a verification that accepts any row count
OpVerify_accepts_empty ==
    /\ AtOp("verify")
    /\ Advance(1)
    /\ UNCHANGED <<fs, output_dir, faults>>
    /\ OpFrame

\* build_common.py:155-163
OpVerify ==
    /\ AtOp("verify")
    /\ IF exists(fs, CurOp.a) /\ fs[CurOp.a].rows = "ok"
       THEN Advance(1)
       ELSE Raise
    /\ UNCHANGED <<fs, output_dir, faults>>
    /\ OpFrame

OpIfExists ==
    /\ AtOp("if_exists")
    /\ IF exists(fs, CurOp.a) THEN Advance(1) ELSE Advance(1 + CurOp.n)
    /\ UNCHANGED <<fs, output_dir, faults>>
    /\ OpFrame

OpSkip ==
    /\ AtOp("skip")
    /\ Advance(1 + CurOp.n)
    /\ UNCHANGED <<fs, output_dir, faults>>
    /\ OpFrame

\* any operation of the step may raise (an I/O error, an engine error)
OpRaises ==
    /\ InFunc
    /\ faults < MaxFaults
    /\ faults' = faults + 1
    /\ Raise
    /\ UNCHANGED <<fs, output_dir>>
    /\ OpFrame

\* a failure handler that still records the step and saves the manifest
StepFailed_records ==
    /\ pc = "except"
    /\ Ended("False", 1)
    /\ fs' = put(fs, MANIFEST_FILE, Json(put(manifest, CurStep.step_id, Entry(now))))
    /\ trace' = Append(trace, Ev("failed", CurStep.step_id))
    /\ UNCHANGED <<_steps, argv, manifest, steps_to_run, output_dir, i, spc, now, runs,
                   faults, durable, pre_fs, prev_ok, downstream, prev_dry, visited, queue, dsvars>>

\* a failure handler that breaks out of the loop and falls through to the summary
StepFailed_then_summary ==
    /\ pc = "except"
    /\ pc' = "summary"
    /\ con' = 0
    /\ trace' = Append(trace, Ev("failed", CurStep.step_id))
    /\ UNCHANGED <<_steps, argv, manifest, steps_to_run, result, exit_code, output_dir, fs, i, spc,
                   now, runs, faults, durable, pre_fs, prev_ok, downstream, prev_dry, visited, queue, dsvars>>

\* build.py:107-111: the error is logged, the connection closed, False returned;
\* main exits with status 1 (build.py:186-187)
StepFailed ==
    /\ pc = "except"
    /\ Ended("False", 1)
    /\ trace' = Append(trace, Ev("failed", CurStep.step_id))
    /\ UNCHANGED <<_steps, argv, manifest, steps_to_run, output_dir, fs, i, spc, now, runs,
                   faults, durable, pre_fs, prev_ok, downstream, prev_dry, visited, queue, dsvars>>

\* a loop that records the entry but leaves the save to the end of the run
StepSucceeded_nosave ==
    /\ pc = "func"
    /\ spc > Len(Prog)
    /\ con' = con - 1
    /\ manifest' = put(manifest, CurStep.step_id, Entry(now))
    /\ i' = IF i + 1 > Len(steps_to_run) THEN i ELSE i + 1
    /\ pc' = IF i + 1 > Len(steps_to_run) THEN "save_open" ELSE "step"
    /\ trace' = Append(trace, Ev("returned", CurStep.step_id))
    /\ UNCHANGED <<_steps, argv, steps_to_run, result, exit_code, output_dir, fs, spc, now,
                   runs, faults, durable, pre_fs, prev_ok, downstream, prev_dry, visited, queue, dsvars>>

\* a loop that forgets con.close() when the step function returns
StepSucceeded_keeps_con ==
    /\ pc = "func"
    /\ spc > Len(Prog)
    /\ manifest' = put(manifest, CurStep.step_id, Entry(now))
    /\ pc' = "save_open"
    /\ trace' = Append(trace, Ev("returned", CurStep.step_id))
    /\ UNCHANGED <<_steps, argv, steps_to_run, result, exit_code, output_dir, fs, i, spc, con, now,
                   runs, faults, durable, pre_fs, prev_ok, downstream, prev_dry, visited, queue, dsvars>>

\* build.py:106-117: func returned, the connection is closed, the entry recorded
StepSucceeded ==
    /\ pc = "func"
    /\ spc > Len(Prog)
    /\ con' = con - 1
    /\ manifest' = put(manifest, CurStep.step_id, Entry(now))
    /\ pc' = "save_open"
    /\ trace' = Append(trace, Ev("returned", CurStep.step_id))
    /\ UNCHANGED <<_steps, argv, steps_to_run, result, exit_code, output_dir, fs, i, spc, now,
                   runs, faults, durable, pre_fs, prev_ok, downstream, prev_dry, visited, queue, dsvars>>

\* build_common.py:112-114: the temporary document is created, still empty
SaveOpen ==
    /\ pc = "save_open"
    /\ output_dir' = TRUE
    /\ fs' = put(fs, save_path, PartialJson)
    /\ pc' = "save_dump"
    /\ UNCHANGED <<_steps, argv, manifest, steps_to_run, result, exit_code, i, spc, con, now,
                   runs, faults, trace, durable, pre_fs, prev_ok, downstream, prev_dry, visited, queue, dsvars>>

\* build_common.py:115: the document is written and closed
SaveDump ==
    /\ pc = "save_dump"
    /\ fs' = put(fs, save_path, Json(manifest))
    /\ pc' = "save_rename"
    /\ UNCHANGED <<_steps, argv, manifest, steps_to_run, result, exit_code, output_dir, i, spc,
                   con, now, runs, faults, trace, durable, pre_fs, prev_ok, downstream, prev_dry, visited, queue, dsvars>>

\* a loop that steps over the planned step after the one it saved
SaveRename_skips_next ==
    /\ pc = "save_rename"
    /\ fs' = rename(fs, save_path, MANIFEST_FILE)
    /\ durable' = Json(manifest)
    /\ trace' = Append(trace, Ev("saved", CurStep.step_id))
    /\ i' = i + 2
    /\ pc' = IF i + 2 > Len(steps_to_run) THEN "summary" ELSE "step"
    /\ UNCHANGED <<_steps, argv, manifest, steps_to_run, result, exit_code, output_dir, spc,
                   con, now, runs, faults, pre_fs, prev_ok, downstream, prev_dry, visited, queue, dsvars>>

\* build_common.py:116, then build.py:119 and the next iteration of :100
SaveRename ==
    /\ pc = "save_rename"
    /\ fs' = rename(fs, save_path, MANIFEST_FILE)
    /\ durable' = Json(manifest)
    /\ trace' = Append(trace, Ev("saved", CurStep.step_id))
    /\ i' = i + 1
    /\ pc' = IF i + 1 > Len(steps_to_run) THEN "summary" ELSE "step"
    /\ UNCHANGED <<_steps, argv, manifest, steps_to_run, result, exit_code, output_dir, spc,
                   con, now, runs, faults, pre_fs, prev_ok, downstream, prev_dry, visited, queue, dsvars>>

\* an I/O error inside save_manifest: nothing in run_build or main catches it
SaveRaises ==
    /\ pc \in {"save_open", "save_dump", "save_rename"}
    /\ faults < MaxFaults
    /\ faults' = faults + 1
    /\ Ended("uncaught", 1)
    /\ trace' = Append(trace, Ev("save_error", CurStep.step_id))
    /\ UNCHANGED <<_steps, argv, manifest, steps_to_run, output_dir, fs, i, spc, now, runs, durable, pre_fs, prev_ok, downstream, prev_dry, visited, queue, dsvars>>

\* build.py:86-88, 121-124: run_summary returns, run_build returns True
Summary ==
    /\ pc = "summary"
    /\ Ended("True", 0)
    /\ trace' = Append(trace, Ev("summary", ""))
    /\ UNCHANGED <<_steps, argv, manifest, steps_to_run, output_dir, fs, i, spc, now, runs,
                   faults, durable, pre_fs, prev_ok, downstream, prev_dry, visited, queue, dsvars>>

\* run_summary raises: nothing in run_build or main catches it
SummaryRaises ==
    /\ pc = "summary"
    /\ faults < MaxFaults
    /\ faults' = faults + 1
    /\ Ended("uncaught", 1)
    /\ trace' = Append(trace, Ev("summary_error", ""))
    /\ UNCHANGED <<_steps, argv, manifest, steps_to_run, output_dir, fs, i, spc, now, runs, durable, pre_fs, prev_ok, downstream, prev_dry, visited, queue, dsvars>>

\* the process is killed: memory is lost, the output directory stays as it is
Crash ==
    /\ pc # "idle"
    /\ faults < MaxFaults
    /\ faults' = faults + 1
    /\ Ended("killed", 137)
    /\ trace' = Append(trace, Ev("killed", ""))
    /\ UNCHANGED <<_steps, argv, manifest, steps_to_run, output_dir, fs, i, spc, now, runs, durable, pre_fs, prev_ok, downstream, prev_dry, visited, queue, dsvars>>

Next ==
    \/ Invoke \/ ListSteps \/ RejectUnknown \/ Validated
    \/ CleanupItem \/ CleanupDone \/ LoadManifest \/ Plan
    \/ StepOpen
    \/ OpMkdirOut \/ OpRmIfExists \/ OpMkdir \/ OpWriteBegin \/ OpWriteEnd
    \/ OpRename \/ OpRmtree \/ OpVerify \/ OpIfExists \/ OpSkip \/ OpRaises
    \/ StepFailed \/ StepSucceeded
    \/ SaveOpen \/ SaveDump \/ SaveRename \/ SaveRaises
    \/ Summary \/ SummaryRaises
    \/ Crash

Spec == Init /\ [][Next]_vars

(***************************************************************************)
(* SpecLegacy: the same process, started on an output directory that an    *)
(* earlier version of the registry left behind: no artifact, and a         *)
(* manifest with an entry of a step id that is no longer registered.       *)
(***************************************************************************)
LegacyManifest == Json([id \in RetiredIds |-> Entry(0)])

InitLegacy ==
    /\ _steps = ShippedSteps
    /\ argv = Args(<<>>, FALSE, FALSE, FALSE)
    /\ pc = "idle"
    /\ manifest = EmptyManifest
    /\ steps_to_run = <<>>
    /\ result = "none"
    /\ exit_code = -1
    /\ output_dir = TRUE
    /\ fs = put(<<>>, MANIFEST_FILE, LegacyManifest)
    /\ i = 0 /\ spc = 0 /\ con = 0
    /\ now = 0 /\ runs = 0 /\ faults = 0
    /\ trace = <<>>
    /\ durable = LegacyManifest
    /\ pre_fs = <<>>
    /\ prev_ok = FALSE
    /\ downstream = {}
    /\ prev_dry = <<>>
    /\ visited = {} /\ queue = <<>>
    /\ dl = <<>> /\ mc = <<>> /\ fmc = <<>>

SpecLegacy == InitLegacy /\ [][Next]_vars

(***************************************************************************)
(* Planner claims (checked under SpecPlan).                                *)
(***************************************************************************)
\* the targets reachable from S by reverse-dependency edges, S included:
\* the least set closed under "a step that depends on a member adds its target"
RECURSIVE DownstreamClosure(_)
DownstreamClosure(S) ==
    LET S2 == S \cup {_steps[k].target :
                        k \in {j \in DOMAIN _steps : _steps[j].depends_on \cap S # {}}}
    IN  IF S2 = S THEN S ELSE DownstreamClosure(S2)

PlanIds == [k \in DOMAIN steps_to_run |-> steps_to_run[k].step_id]

StepsWithTargetIn(T) ==
    LET sel == SelectSeq(_steps, LAMBDA st : st.target \in T)
    IN  [k \in 1..Len(sel) |-> PlanEntry(sel[k])]

AllInManifest == RegisteredIds \subseteq DOMAIN manifest

ChainABC ==
    << Step("A", "t1", {}, "fn"), Step("B", "t2", {"t1"}, "fn"), Step("C", "t3", {"t2"}, "fn") >>

\* C1: with every registered id in the manifest and no full rebuild, the plan
\* is exactly the steps whose target is requested or transitively downstream of
\* a requested target, in registration order; for the chain A(t1), B(t2<-t1),
\* C(t3<-t2) requesting t1 gives [A, B, C] and requesting t2 gives [B, C].
C1_CascadeCorrectness ==
    (pc = "planned" /\ ~argv.full /\ AllInManifest) =>
        /\ steps_to_run = StepsWithTargetIn(DownstreamClosure(Range(argv.targets)))
        /\ (_steps = ChainABC /\ argv.targets = <<"t1">>) => PlanIds = <<"A", "B", "C">>
        /\ (_steps = ChainABC /\ argv.targets = <<"t2">>) => PlanIds = <<"B", "C">>

C1_Witness ==
    /\ pc = "planned" /\ ~argv.full /\ AllInManifest
    /\ _steps = ChainABC /\ argv.targets = <<"t1">>
    /\ PlanIds = <<"A", "B", "C">>

\* C2: with nothing requested and no full rebuild, a step whose id is in the
\* manifest is planned only if one of its dependency targets is produced by a
\* step selected earlier in the pass; for a registry [A, B] with A in the
\* manifest and B not, the plan is exactly [B].
C2_ManifestGating ==
    (pc = "planned" /\ ~argv.full /\ argv.targets = <<>>) =>
        /\ \A k \in DOMAIN _steps :
              (_steps[k].step_id \in DOMAIN manifest /\ _steps[k].step_id \in Range(PlanIds)) =>
                  \E j \in DOMAIN steps_to_run :
                      /\ steps_to_run[j].target \in _steps[k].depends_on
                      /\ \E e \in 1..(k - 1) : _steps[e].step_id = steps_to_run[j].step_id
        /\ (Len(_steps) = 2 /\ DOMAIN manifest = {"A"}) => PlanIds = <<"B">>

C2_Witness ==
    /\ pc = "planned" /\ ~argv.full /\ argv.targets = <<>>
    /\ Len(_steps) = 2 /\ DOMAIN manifest = {"A"}
    /\ _steps[1].depends_on # {}
    /\ PlanIds = <<"B">>

\* C3: with full_rebuild the plan is every registered step exactly once, in
\* registration order, whatever the manifest and the requested targets; it is
\* the plan an empty manifest gives without the flag.
C3_FullRebuild ==
    (pc = "planned" /\ argv.full) =>
        /\ PlanIds = [k \in 1..Len(_steps) |-> _steps[k].step_id]
        /\ steps_to_run = determine_steps_to_run(EmptyManifest, argv.targets, FALSE)

C3_Witness ==
    /\ pc = "planned" /\ argv.full
    /\ Len(_steps) = MaxSteps /\ AllInManifest /\ argv.targets # <<>>
    /\ Len(steps_to_run) = MaxSteps

\* the registry step at position k is in the plan
Selected(k) == _steps[k].step_id \in Range(PlanIds)

\* C22: without full_rebuild a registered step is in the plan if and only if
\* its id is absent from the manifest, or its target is requested or downstream
\* of a requested target, or one of its dependency targets is the target of a
\* step selected earlier in the pass; the plan is the registry restricted to
\* the selected steps, in registration order, each once.
C22_PlannerRule ==
    (pc = "planned" /\ ~argv.full) =>
        /\ \A k \in DOMAIN _steps :
              Selected(k) <=>
                  \/ _steps[k].step_id \notin DOMAIN manifest
                  \/ _steps[k].target \in DownstreamClosure(Range(argv.targets))
                  \/ \E j \in 1..(k - 1) :
                        Selected(j) /\ _steps[j].target \in _steps[k].depends_on
        /\ \E pos \in [DOMAIN steps_to_run -> DOMAIN _steps] :
              /\ \A a, b \in DOMAIN pos : a < b => pos[a] < pos[b]
              /\ \A a \in DOMAIN pos : steps_to_run[a] = PlanEntry(_steps[pos[a]])

\* A is new, B is recorded and depends on A's target, C is recorded and does not
C22_Witness ==
    /\ pc = "planned" /\ ~argv.full /\ argv.targets = <<>>
    /\ Len(_steps) = 3 /\ DOMAIN manifest = {"B", "C"}
    /\ _steps[1].target \in _steps[2].depends_on
    /\ PlanIds = <<"A", "B">>

\* every dependency target is produced by some earlier-registered step
Topological ==
    \A k \in DOMAIN _steps : \A d \in _steps[k].depends_on :
        \E j \in 1..(k - 1) : _steps[j].target = d

\* no step that produces a dependency target is registered at or after the
\* step that depends on it
ProducersFirst ==
    \A k \in DOMAIN _steps : \A d \in _steps[k].depends_on :
        \A j \in DOMAIN _steps : _steps[j].target = d => j < k

\* step m depends, directly or transitively, on target t
DependsOn(m, t) == _steps[m].depends_on \cap DownstreamClosure({t}) # {}

\* every step that depends on the target of a planned step is planned, later
DownstreamClosed ==
    \A k, m \in DOMAIN _steps :
        (Selected(k) /\ DependsOn(m, _steps[k].target)) => (Selected(m) /\ k < m)

\* C23 (as claimed): for every registry in which each dependency target is
\* produced by an earlier-registered step, every manifest and every request,
\* the plan is closed downstream: every registered step that depends directly
\* or transitively on the target of a planned step is planned and after it.
C23_CascadeClosure ==
    (pc = "planned" /\ Topological) => DownstreamClosed

\* C23 (amended): the same, for every registry in which, in addition, every
\* step that produces a dependency target is registered before the steps that
\* depend on that target.
C23_CascadeClosureProducersFirst ==
    (pc = "planned" /\ Topological /\ ProducersFirst) => DownstreamClosed

\* the chain with a new A and recorded B and C: B and C are planned after A
C23_Witness ==
    /\ pc = "planned" /\ ~argv.full /\ argv.targets = <<>>
    /\ Topological /\ ProducersFirst
    /\ _steps = ChainABC /\ DOMAIN manifest = {"B", "C"}
    /\ PlanIds = <<"A", "B", "C">>

\* a run-pending plan was computed from a manifest that holds an entry of a
\* retired step id and no entry of the registered step at position k
RetiredIdScenario(k) ==
    /\ pc = "planned" /\ ~argv.full /\ argv.targets = <<>>
    /\ DOMAIN manifest \cap RetiredIds # {}
    /\ _steps[k].step_id \notin DOMAIN manifest

C27_PlanDeterminism ==
    pc = "planned" =>
        /\ steps_to_run = determine_steps_to_run([id \in DOMAIN manifest |-> Entry(0)],
                                                  SetToSeq(Range(argv.targets)), argv.full)
        /\ \A targets \in SeqsUpTo(Range(argv.targets), MaxReplanRequested + 1) :
              Range(targets) = Range(argv.targets) =>
                  determine_steps_to_run(manifest, targets, argv.full) = steps_to_run

\* both recorded steps were requested; the second call got the request in
\* the other order with a repetition and a re-stamped manifest
C27_Witness ==
    /\ pc = "planned" /\ ~argv.full
    /\ Len(_steps) = 2 /\ _steps[1].target = "t1" /\ _steps[2].target = "t2"
    /\ _steps[1].depends_on = {} /\ _steps[2].depends_on = {}
    /\ argv.targets = <<"t2", "t1", "t2">>
    /\ DOMAIN manifest = {"A", "B"} /\ manifest["A"] = Entry(1)
    /\ PlanIds = <<"A", "B">>

(***************************************************************************)
(* SpecDownload: one call of download_file of the insider-trades           *)
(* downloader, insider_trades/download.py:115-149.  dl holds the locals of *)
(* the call, the two files it touches and, as history, the file dest as    *)
(* the call found it and the outcome of every attempt.  A file is the body *)
(* it was written from and the number of chunks it holds.                  *)
(***************************************************************************)
\* download.py:115, the default of the parameter
max_retries == 5

Body(body, n) == [body |-> body, n |-> n]

\* download.py:117
tmp_of(dest) == dest \o ".tmp"

InitDownload ==
    /\ \E chunks \in 0..MaxChunks, old \in BOOLEAN :
          LET files == IF old THEN put(<<>>, "dest", Body("old", 1)) ELSE <<>>
          IN  dl = [attempt |-> 0, files |-> files, chunks |-> chunks, ret |-> "none",
                    found |-> files, outcomes |-> <<>>]
    /\ pc = "attempt"
    /\ _steps = <<>> /\ argv = Args(<<>>, FALSE, FALSE, FALSE) /\ manifest = EmptyManifest
    /\ steps_to_run = <<>>
    /\ result = "none"
    /\ exit_code = -1 /\ output_dir = FALSE /\ fs = <<>> /\ i = 0 /\ spc = 0 /\ con = 0
    /\ now = 0 /\ runs = 0 /\ faults = 0 /\ trace = <<>>
    /\ durable = [kind |-> "absent", rows |-> "", stamp |-> 0, doc |-> <<>>]
    /\ pre_fs = <<>> /\ prev_ok = FALSE /\ downstream = {} /\ prev_dry = <<>>
    /\ visited = {} /\ queue = <<>>
    /\ mc = <<>> /\ fmc = <<>>

DlFrame == UNCHANGED <<_steps, argv, manifest, steps_to_run, result, bvars, mc, fmc>>

\* download.py:124-128: the response has status 429
DlRateLimited ==
    /\ pc = "attempt" /\ dl.attempt < max_retries
    /\ dl' = [dl EXCEPT !.attempt = @ + 1, !.outcomes = Append(@, "429")]
    /\ UNCHANGED pc
    /\ DlFrame

\* download.py:122-129: requests.get or raise_for_status raises
DlRequestError ==
    /\ pc = "attempt" /\ dl.attempt < max_retries
    /\ dl' = [dl EXCEPT !.outcomes = Append(@, "request error")]
    /\ pc' = "except"
    /\ DlFrame

\* download.py:131: the response is good and open(tmp, "wb") truncates tmp
DlOpen ==
    /\ pc = "attempt" /\ dl.attempt < max_retries
    /\ dl' = [dl EXCEPT !.files = put(@, tmp_of("dest"), Body("new", 0))]
    /\ pc' = "stream"
    /\ DlFrame

\* download.py:132-133: one chunk arrives and is written
DlWrite ==
    /\ pc = "stream" /\ dl.files[tmp_of("dest")].n < dl.chunks
    /\ dl' = [dl EXCEPT !.files[tmp_of("dest")].n = @ + 1]
    /\ UNCHANGED pc
    /\ DlFrame

\* download.py:132: iter_content raises; the with statements close f and resp
DlStreamError ==
    /\ pc = "stream"
    /\ dl' = [dl EXCEPT !.outcomes = Append(@, "stream error")]
    /\ pc' = "except"
    /\ DlFrame

\* download.py:135-136: the body is exhausted
DlRename ==
    /\ pc = "stream" /\ dl.files[tmp_of("dest")].n = dl.chunks
    /\ dl' = [dl EXCEPT !.files = rename(@, tmp_of("dest"), "dest"),
                        !.ret = "True", !.outcomes = Append(@, "success")]
    /\ pc' = "done"
    /\ DlFrame

\* download.py:138-142
DlRetry ==
    /\ pc = "except" /\ dl.attempt < max_retries - 1
    /\ dl' = [dl EXCEPT !.attempt = @ + 1]
    /\ pc' = "attempt"
    /\ DlFrame

\* download.py:143-147
DlGiveUp ==
    /\ pc = "except" /\ ~(dl.attempt < max_retries - 1)
    /\ dl' = [dl EXCEPT !.files = IF exists(@, tmp_of("dest")) THEN remove(@, tmp_of("dest")) ELSE @,
                        !.ret = "False"]
    /\ pc' = "done"
    /\ DlFrame

\* download.py:120, 149: range(max_retries) is exhausted
DlExhausted ==
    /\ pc = "attempt" /\ dl.attempt = max_retries
    /\ dl' = [dl EXCEPT !.ret = "False"]
    /\ pc' = "done"
    /\ DlFrame

NextDownload ==
    \/ DlRateLimited \/ DlRequestError \/ DlOpen \/ DlWrite \/ DlStreamError
    \/ DlRename \/ DlRetry \/ DlGiveUp \/ DlExhausted

SpecDownload == InitDownload /\ [][NextDownload]_vars

\* C38: when download_file has returned False, dest.tmp does not exist and
\* dest is as the call found it; when it has returned True, dest holds the
\* whole body, renamed from dest.tmp.
C38_DownloadCleansUp ==
    pc = "done" =>
        /\ dl.ret = "False" =>
              /\ ~exists(dl.files, tmp_of("dest"))
              /\ content(dl.files, "dest") = content(dl.found, "dest")
        /\ dl.ret = "True" =>
              /\ ~exists(dl.files, tmp_of("dest"))
              /\ exists(dl.files, "dest") /\ dl.files["dest"] = Body("new", dl.chunks)

\* what holds of every return of download_file: dest changes only by the
\* rename of a completely written dest.tmp, and that is when it returns True
C38_DestOnlyByRename ==
    pc = "done" =>
        /\ dl.ret = "False" => content(dl.files, "dest") = content(dl.found, "dest")
        /\ dl.ret = "True" =>
              /\ ~exists(dl.files, tmp_of("dest"))
              /\ exists(dl.files, "dest") /\ dl.files["dest"] = Body("new", dl.chunks)
        /\ (dl.ret = "False" /\ exists(dl.files, tmp_of("dest"))) =>
              /\ dl.attempt = max_retries
              /\ dl.outcomes[Len(dl.outcomes)] = "429"

(***************************************************************************)
(* SpecMarketCap: main of the market-cap downloader from the split of the  *)
(* ticker list to its return, market_cap/download.py:281-328.  The workers *)
(* of the pool run do_fetch and share nothing; main alone takes the        *)
(* completed futures and keeps the books.  mc holds main's locals, the     *)
(* state and the result of every future, the CSV files of DATA_DIR, the    *)
(* document in FAILED_FILE and, as history, the order in which main took   *)
(* the futures.                                                            *)
(***************************************************************************)
Symbols == <<"AAA", "BBB", "CCC">>

\* download.py:284-289
to_download_of(tickers, force, retry_failed, csv) ==
    SelectSeq(tickers, LAMBDA symbol : ~(~force /\ ~retry_failed /\ symbol \in DOMAIN csv))

\* the sorted list of a set of symbols: download.py:82, 109, 257
sorted_symbols(S) == SelectSeq(Symbols, LAMBDA symbol : symbol \in S)

InitMarketCap ==
    /\ \E n \in 0..MaxTickers, force \in BOOLEAN, retry_failed \in BOOLEAN :
       \E old \in SUBSET {Symbols[k] : k \in 1..n}, had \in SUBSET {Symbols[k] : k \in 1..n} :
          LET failed_map == [symbol \in old |-> 0]
              csv == [symbol \in had |-> "old"]
              tickers == IF retry_failed THEN sorted_symbols(old)
                         ELSE sorted_symbols({Symbols[k] : k \in 1..n})
              to_download == to_download_of(tickers, force, retry_failed, csv)
          IN  /\ retry_failed => tickers # <<>>
              /\ mc = [to_download |-> to_download, failed_map |-> failed_map, csv |-> csv,
                       futures |-> [symbol \in Range(to_download) |-> "running"],
                       rows |-> [symbol \in Range(to_download) |-> "pending"],
                       completed |-> 0, failed |-> 0, downloaded |-> 0, clock |-> 1,
                       failed_file |-> failed_map, found |-> failed_map, order |-> <<>>,
                       exit |-> -1]
    /\ pc = "pool"
    /\ _steps = <<>> /\ argv = Args(<<>>, FALSE, FALSE, FALSE) /\ manifest = EmptyManifest
    /\ steps_to_run = <<>>
    /\ result = "none"
    /\ exit_code = -1 /\ output_dir = FALSE /\ fs = <<>> /\ i = 0 /\ spc = 0 /\ con = 0
    /\ now = 0 /\ runs = 0 /\ faults = 0 /\ trace = <<>>
    /\ durable = [kind |-> "absent", rows |-> "", stamp |-> 0, doc |-> <<>>]
    /\ pre_fs = <<>> /\ prev_ok = FALSE /\ downstream = {} /\ prev_dry = <<>>
    /\ visited = {} /\ queue = <<>>
    /\ dl = <<>> /\ fmc = <<>>

McFrame == UNCHANGED <<_steps, argv, manifest, steps_to_run, result, bvars, dl, fmc>>

\* download.py:298-299: a worker's do_fetch returns None, an empty list or rows
do_fetch ==
    /\ pc = "pool"
    /\ \E symbol \in DOMAIN mc.futures, rows \in {"None", "empty", "rows"} :
          /\ mc.futures[symbol] = "running"
          /\ mc' = [mc EXCEPT !.futures[symbol] = "done", !.rows[symbol] = rows]
    /\ UNCHANGED pc
    /\ McFrame

\* a loop body that writes the CSV and leaves an earlier failure recorded
TakeCompleted_no_pop ==
    /\ pc = "pool"
    /\ \E symbol \in DOMAIN mc.futures :
          /\ mc.futures[symbol] = "done"
          /\ LET completed == mc.completed + 1
                 rows == mc.rows[symbol]
                 failed_map ==
                     IF rows \in {"None", "empty"}
                     THEN put(mc.failed_map, symbol, mc.clock)
                     ELSE mc.failed_map
             IN  mc' = [mc EXCEPT
                    !.futures[symbol] = "taken",
                    !.completed = completed,
                    !.failed_map = failed_map,
                    !.failed = IF rows \in {"None", "empty"} THEN @ + 1 ELSE @,
                    !.downloaded = IF rows \in {"None", "empty"} THEN @ ELSE @ + 1,
                    !.csv = IF rows \in {"None", "empty"} THEN @ ELSE put(@, symbol, "new"),
                    !.failed_file = IF completed % 50 = 0 \/ completed = Len(mc.to_download)
                                    THEN failed_map ELSE @,
                    !.clock = @ + 1,
                    !.order = Append(@, symbol)]
    /\ UNCHANGED pc
    /\ McFrame

\* download.py:304-321: main takes a completed future and books its result
TakeCompleted ==
    /\ pc = "pool"
    /\ \E symbol \in DOMAIN mc.futures :
          /\ mc.futures[symbol] = "done"
          /\ LET completed == mc.completed + 1
                 rows == mc.rows[symbol]
                 failed_map ==
                     IF rows \in {"None", "empty"}
                     THEN put(mc.failed_map, symbol, mc.clock)
                     ELSE remove(mc.failed_map, symbol)
             IN  mc' = [mc EXCEPT
                    !.futures[symbol] = "taken",
                    !.completed = completed,
                    !.failed_map = failed_map,
                    !.failed = IF rows \in {"None", "empty"} THEN @ + 1 ELSE @,
                    !.downloaded = IF rows \in {"None", "empty"} THEN @ ELSE @ + 1,
                    !.csv = IF rows \in {"None", "empty"} THEN @ ELSE put(@, symbol, "new"),
                    !.failed_file = IF completed % 50 = 0 \/ completed = Len(mc.to_download)
                                    THEN failed_map ELSE @,
                    !.clock = @ + 1,
                    !.order = Append(@, symbol)]
    /\ UNCHANGED pc
    /\ McFrame

\* download.py:323-328: every future was taken
McReturn ==
    /\ pc = "pool"
    /\ \A symbol \in DOMAIN mc.futures : mc.futures[symbol] = "taken"
    /\ mc' = [mc EXCEPT !.failed_file = mc.failed_map,
                        !.exit = IF mc.failed > 0 THEN 1 ELSE 0]
    /\ pc' = "done"
    /\ McFrame

NextMarketCap == do_fetch \/ TakeCompleted \/ McReturn

SpecMarketCap == InitMarketCap /\ [][NextMarketCap]_vars

\* C39 (checked under SpecMarketCap): when main has finished, whatever the
\* order in which the fetches completed and were taken, a ticker processed in
\* this run is in the persisted failed map if and only if its fetch returned
\* None or an empty list, a ticker whose fetch returned rows has its CSV
\* written in this run and is absent from the map, and the entries of the
\* tickers that were not processed are as the run found them.
C39_FailedBookkeeping ==
    pc = "done" =>
        /\ \A symbol \in Range(mc.to_download) :
              /\ symbol \in DOMAIN mc.failed_file <=> mc.rows[symbol] \in {"None", "empty"}
              /\ mc.rows[symbol] = "rows" =>
                    /\ symbol \in DOMAIN mc.csv /\ mc.csv[symbol] = "new"
                    /\ symbol \notin DOMAIN mc.failed_file
        /\ \A symbol \in Range(Symbols) \ Range(mc.to_download) :
              content(mc.failed_file, symbol) = content(mc.found, symbol)

\* three tickers were fetched; the futures were taken in the order CCC, AAA,
\* BBB; AAA returned None, BBB an empty list and CCC rows; CCC had failed
\* in an earlier run and has left the map
C39_Witness ==
    /\ pc = "done"
    /\ mc.to_download = Symbols
    /\ mc.order = <<"CCC", "AAA", "BBB">>
    /\ mc.rows = [AAA |-> "None", BBB |-> "empty", CCC |-> "rows"]
    /\ DOMAIN mc.found = {"CCC"}
    /\ DOMAIN mc.failed_file = {"AAA", "BBB"}
    /\ mc.csv = [CCC |-> "new"]
    /\ mc.exit = 1

(***************************************************************************)
(* SpecFetch: one call of fetch_market_cap, market_cap/download.py:180-204.*)
(* A date is its proleptic Gregorian ordinal, as datetime.date counts it;  *)
(* adding a timedelta raises OverflowError when the sum is past date.max.  *)
(* fmc holds the arguments and locals of the call, its result and, as      *)
(* history, the windows it requested and what each page returned.          *)
(***************************************************************************)
\* download.py:45-46
FMP_MAX_DAYS == 5000
FMP_WINDOW == 5000

\* date(1999, 1, 1).toordinal(), the default of --from: download.py:237
DefaultFrom == 729755
\* date.max.toordinal(), the last day a datetime.date can hold
DateMax == 3652059

\* date + timedelta(days) raises OverflowError: download.py:194, 199
overflows(d, days) == d + days > DateMax

min(a, b) == IF a <= b THEN a ELSE b

InitFetch ==
    /\ \E total_days \in (FMP_MAX_DAYS - 1)..(MaxWindows * (FMP_WINDOW + 1) + 1) :
       \E from_date \in {DefaultFrom, DateMax - FMP_WINDOW - total_days, DateMax - total_days} :
          fmc = [from_date |-> from_date, to_date |-> from_date + total_days,
                 window_start |-> 0, windows |-> <<>>, pages |-> <<>>,
                 ret |-> "none", raised |-> FALSE]
    /\ pc = "enter"
    /\ _steps = <<>> /\ argv = Args(<<>>, FALSE, FALSE, FALSE) /\ manifest = EmptyManifest
    /\ steps_to_run = <<>>
    /\ result = "none"
    /\ exit_code = -1 /\ output_dir = FALSE /\ fs = <<>> /\ i = 0 /\ spc = 0 /\ con = 0
    /\ now = 0 /\ runs = 0 /\ faults = 0 /\ trace = <<>>
    /\ durable = [kind |-> "absent", rows |-> "", stamp |-> 0, doc |-> <<>>]
    /\ pre_fs = <<>> /\ prev_ok = FALSE /\ downstream = {} /\ prev_dry = <<>>
    /\ visited = {} /\ queue = <<>>
    /\ dl = <<>> /\ mc = <<>>

FetchFrame == UNCHANGED <<_steps, argv, manifest, steps_to_run, result, bvars, dl, mc>>

\* download.py:186
total_days == fmc.to_date - fmc.from_date

Window(start, end) == [start |-> start, end |-> end]

\* download.py:188-189
FetchSinglePage ==
    /\ pc = "enter" /\ total_days <= FMP_MAX_DAYS
    /\ \E rows \in {"None", "rows"} :
          fmc' = [fmc EXCEPT !.windows = <<Window(fmc.from_date, fmc.to_date)>>,
                             !.pages = <<rows>>, !.ret = rows]
    /\ pc' = "done"
    /\ FetchFrame

\* download.py:191-192
FetchPaginate ==
    /\ pc = "enter" /\ ~(total_days <= FMP_MAX_DAYS)
    /\ fmc' = [fmc EXCEPT !.window_start = fmc.from_date]
    /\ pc' = "while"
    /\ FetchFrame

\* download.py:194: window_start + timedelta(days=FMP_WINDOW) is out of range
FetchWindowOverflow ==
    /\ pc = "while" /\ fmc.window_start <= fmc.to_date
    /\ overflows(fmc.window_start, FMP_WINDOW)
    /\ fmc' = [fmc EXCEPT !.raised = TRUE]
    /\ pc' = "done"
    /\ FetchFrame

\* download.py:194-197: the page of the window returns None
FetchWindowNone ==
    /\ pc = "while" /\ fmc.window_start <= fmc.to_date
    /\ ~overflows(fmc.window_start, FMP_WINDOW)
    /\ LET window_end == min(fmc.window_start + FMP_WINDOW, fmc.to_date)
       IN  fmc' = [fmc EXCEPT !.windows = Append(@, Window(fmc.window_start, window_end)),
                              !.pages = Append(@, "None"), !.ret = "None"]
    /\ pc' = "done"
    /\ FetchFrame

\* download.py:194-199: the page of the window returns rows
FetchWindowRows ==
    /\ pc = "while" /\ fmc.window_start <= fmc.to_date
    /\ ~overflows(fmc.window_start, FMP_WINDOW)
    /\ LET window_end == min(fmc.window_start + FMP_WINDOW, fmc.to_date)
       IN  IF overflows(window_end, 1)
           THEN /\ fmc' = [fmc EXCEPT !.windows = Append(@, Window(fmc.window_start, window_end)),
                                      !.pages = Append(@, "rows"), !.raised = TRUE]
                /\ pc' = "done"
           ELSE /\ fmc' = [fmc EXCEPT !.windows = Append(@, Window(fmc.window_start, window_end)),
                                      !.pages = Append(@, "rows"),
                                      !.window_start = window_end + 1]
                /\ UNCHANGED pc
    /\ FetchFrame

\* download.py:193, 201-204: the loop condition is false
FetchReturn ==
    /\ pc = "while" /\ ~(fmc.window_start <= fmc.to_date)
    /\ fmc' = [fmc EXCEPT !.ret = "rows"]
    /\ pc' = "done"
    /\ FetchFrame

NextFetch ==
    \/ FetchSinglePage \/ FetchPaginate \/ FetchWindowOverflow
    \/ FetchWindowNone \/ FetchWindowRows \/ FetchReturn

SpecFetch == InitFetch /\ [][NextFetch]_vars

\* the windows requested so far start at from_date, follow one another
\* without gap or overlap and span at most FMP_WINDOW + 1 days each
ConsecutiveWindows ==
    /\ fmc.windows # <<>> => fmc.windows[1].start = fmc.from_date
    /\ \A k \in DOMAIN fmc.windows :
          /\ fmc.windows[k].start <= fmc.windows[k].end
          /\ fmc.windows[k].end <= fmc.to_date
          /\ fmc.windows[k].end - fmc.windows[k].start + 1 <= FMP_WINDOW + 1
          /\ k > 1 => fmc.windows[k].start = fmc.windows[k - 1].end + 1

\* the call has ended as claimed: with None right after the first page that
\* returned None, or with rows after windows that cover the range to its end
ReturnedAsClaimed ==
    /\ ~fmc.raised
    /\ fmc.ret = "None" <=> fmc.pages[Len(fmc.pages)] = "None"
    /\ \A k \in 1..(Len(fmc.pages) - 1) : fmc.pages[k] = "rows"
    /\ fmc.ret = "rows" => fmc.windows[Len(fmc.windows)].end = fmc.to_date

\* the loop cannot run on: every iteration starts a window after the one before
WindowsBounded ==
    /\ Len(fmc.windows) * (FMP_WINDOW + 1) <= total_days + 1 + FMP_WINDOW
    /\ pc = "while" => fmc.window_start > fmc.from_date \/ fmc.windows = <<>>

\* C40: for a range longer than FMP_MAX_DAYS the requested windows are
\* consecutive, pairwise disjoint and at most FMP_WINDOW + 1 days long; the
\* loop ends, with None as soon as a page returns None and otherwise with
\* windows whose union is [from_date, to_date].
C40_PaginationWindows ==
    total_days > FMP_MAX_DAYS =>
        /\ ConsecutiveWindows
        /\ WindowsBounded
        /\ pc = "done" => ReturnedAsClaimed

\* the same for the ranges that end at least FMP_WINDOW days before date.max,
\* which holds
C40_PaginationWindowsInRange ==
    (total_days > FMP_MAX_DAYS /\ ~overflows(fmc.to_date, FMP_WINDOW)) =>
        /\ ConsecutiveWindows
        /\ WindowsBounded
        /\ pc = "done" => ReturnedAsClaimed

\* a range of three full windows and one day from the default start was
\* fetched in four pages
C40_InRangeReached ==
    /\ pc = "done" /\ fmc.ret = "rows" /\ fmc.from_date = DefaultFrom
    /\ Len(fmc.windows) = MaxWindows + 1
    /\ fmc.windows[MaxWindows + 1].start = fmc.to_date

\* the ids of a plan, as a set
IdsOf(plan) == {plan[k].step_id : k \in DOMAIN plan}

\* the targets of the registered steps whose id is absent from the manifest
AbsentTargets == {_steps[k].target : k \in {j \in DOMAIN _steps : _steps[j].step_id \notin DOMAIN manifest}}

\* the step with this id is recorded, is not forced by the request and depends,
\* directly or transitively, on the target of a step absent from the manifest
InAbsentCascadeOnly(id) ==
    \E k \in DOMAIN _steps :
        /\ _steps[k].step_id = id
        /\ id \in DOMAIN manifest
        /\ _steps[k].target \notin DownstreamClosure(Range(argv.targets))
        /\ _steps[k].depends_on \cap DownstreamClosure(AbsentTargets) # {}

\* C37 (checked under SpecReorder): for every registry, topological or not,
\* and every manifest, each step whose target is requested or transitively
\* downstream of a requested target is in the plan; when the same steps are
\* registered in another order, the two plans hold the same steps except for
\* recorded, unforced steps downstream of a step absent from the manifest.
C37_RequestedCascadeOrderIndependent ==
    pc = "planned" =>
        /\ \A k \in DOMAIN _steps :
              _steps[k].target \in DownstreamClosure(Range(argv.targets)) => Selected(k)
        /\ prev_dry # <<>> =>
              \A id \in (IdsOf(steps_to_run) \ IdsOf(prev_dry[1]))
                          \cup (IdsOf(prev_dry[1]) \ IdsOf(steps_to_run)) :
                  InAbsentCascadeOnly(id)

\* C depends on the target of B, B on the target of A; the steps are now
\* registered as C, B, A with every id recorded; t1 is requested and the plan
\* holds all three, as it did in the order A, B, C
C37_Witness ==
    /\ pc = "planned" /\ ~argv.full /\ AllInManifest /\ ~Topological
    /\ PlanIds = <<"C", "B", "A">>
    /\ argv.targets = <<"t1">>
    /\ _steps[3] = Step("A", "t1", {}, "fn")
    /\ _steps[2] = Step("B", "t2", {"t1"}, "fn")
    /\ _steps[1] = Step("C", "t3", {"t2"}, "fn")
    /\ prev_dry # <<>>
    /\ [k \in DOMAIN prev_dry[1] |-> prev_dry[1][k].step_id] = <<"A", "B", "C">>

\* the registration order decides the cascade from an absent step: B, recorded
\* and dependent on the target of the absent A, was planned when registered
\* after A and is not planned now
C37_OrderDecidesAbsentCascade ==
    /\ pc = "planned" /\ ~argv.full /\ argv.targets = <<>>
    /\ prev_dry # <<>>
    /\ IdsOf(prev_dry[1]) = {"A", "B"} /\ PlanIds = <<"A">>

(***************************************************************************)
(* Executor claims (checked under Spec).                                   *)
(***************************************************************************)
OnDisk == content(fs, MANIFEST_FILE)
PreDoc == content(pre_fs, MANIFEST_FILE).doc
Events(kinds) == SelectSeq(trace, LAMBDA e : e.ev \in kinds)
Called == [k \in DOMAIN Events({"call"}) |-> Events({"call"})[k].id]
PlannedId(k) == steps_to_run[k].step_id

\* C4: when the k-th planned step raises, run_build returns failure, the steps
\* executed are exactly the first k of the plan, the persisted manifest holds
\* an entry written in this run for each of the k-1 completed steps, and the
\* entry of the failing step and of every later planned step is neither added
\* nor updated.
C4_FailFastPartialCredit ==
    (pc = "idle" /\ result = "False") =>
        /\ exit_code = 1
        /\ Called = [k \in 1..i |-> PlannedId(k)]
        /\ Ev("failed", PlannedId(i)) = trace[Len(trace)]
        /\ \A k \in 1..(i - 1) :
              /\ PlannedId(k) \in DOMAIN OnDisk.doc
              /\ OnDisk.doc[PlannedId(k)] = Entry(now - i + k)
        /\ \A k \in i..Len(steps_to_run) :
              PlannedId(k) \in DOMAIN OnDisk.doc =>
                  /\ PlannedId(k) \in DOMAIN PreDoc
                  /\ OnDisk.doc[PlannedId(k)] = PreDoc[PlannedId(k)]

\* prices fails as the second step of a plan that still holds market_cap,
\* which does not depend on prices
C4_Witness ==
    /\ pc = "idle" /\ result = "False"
    /\ i = 2 /\ PlannedId(2) = "prices_v2"
    /\ \E k \in 3..Len(steps_to_run) : PlannedId(k) = "market_cap_v2"
    /\ "tickers_v1" \in DOMAIN OnDisk.doc
    /\ "prices_v2" \in DOMAIN PreDoc

\* C5: after a run in which every planned step succeeded, the planner gives an
\* empty plan for the persisted manifest with nothing requested and no full
\* rebuild; a run-pending invocation that follows such a run executes no step.
C5_Idempotence ==
    /\ AllPlannedSucceeded =>
          determine_steps_to_run(load_manifest, <<>>, FALSE) = <<>>
    /\ (prev_ok /\ argv.targets = <<>> /\ ~argv.full) =>
          /\ Called = <<>>
          /\ steps_to_run = <<>>

C5_Witness ==
    /\ prev_ok /\ argv.targets = <<>> /\ ~argv.full /\ ~argv.list_steps /\ ~argv.dry_run
    /\ pc = "idle" /\ result = "True"
    /\ RegisteredIds \subseteq DOMAIN OnDisk.doc

\* C6: at every point of every run, killed or not, the document at the final
\* manifest path is complete and is the manifest as of the last save that
\* completed (the pre-run document if none did).
C6_ManifestCrashConsistency ==
    /\ OnDisk = durable
    /\ OnDisk.rows \in {"", "json"}

\* killed inside save_manifest, between the write of the temporary file and
\* the rename, with an earlier document at the final path
C6_Witness ==
    /\ pc = "idle" /\ result = "killed"
    /\ exists(fs, save_path)
    /\ exists(fs, MANIFEST_FILE)
    /\ manifest # OnDisk.doc

\* C7: the manifest is persisted once after every successful step: the save
\* of a step follows the return of its action and precedes the call of the
\* next planned step, so while a later step runs the persisted document is the
\* in-memory manifest, with the entries of all steps before it.
C7_ManifestWriteOrdering ==
    LET T == Events({"call", "returned", "saved"})
    IN  /\ \A n \in DOMAIN T :
              /\ T[n].ev = "call" => (n = 1 \/ T[n - 1].ev = "saved")
              /\ T[n].ev = "returned" => (n > 1 /\ T[n - 1] = Ev("call", T[n].id))
              /\ T[n].ev = "saved" => (n > 1 /\ T[n - 1] = Ev("returned", T[n].id))
        /\ (pc \in {"step", "func", "except"} /\ i > 1) =>
              /\ OnDisk = Json(manifest)
              /\ \A k \in 1..(i - 1) : manifest[PlannedId(k)] = Entry(now - (IF pc = "step" THEN i - 1 ELSE i) + k)
        /\ (pc = "idle" /\ result = "True" /\ ~argv.dry_run) =>
              [k \in DOMAIN Events({"saved"}) |-> Events({"saved"})[k].id]
                  = [k \in DOMAIN steps_to_run |-> PlannedId(k)]

C7_Witness ==
    /\ pc = "func" /\ i = 3
    /\ OnDisk = Json(manifest)
    /\ Len(Events({"saved"})) = 2

\* C8 (as claimed): once the cleanup of a run has finished, every registered
\* step id recorded in the persisted manifest has a completely written
\* artifact at the final path of its target.
C8_PublishCrashSafety ==
    (pc \in {"load", "plan"}) =>
        \A k \in DOMAIN _steps :
            _steps[k].step_id \in DOMAIN OnDisk.doc =>
                /\ exists(fs, FinalPath(_steps[k].target))
                /\ fs[FinalPath(_steps[k].target)].rows # "partial"

\* the staging, temporary and backup names of a target
ResidueNames(target) ==
    { FinalPath(target) \o ".tmp", target \o "_building", target \o "_old",
      "_" \o target \o "_temp_fragments" }

InterruptedAtStart(target) == \E r \in ResidueNames(target) : exists(pre_fs, r)

\* C9: when a run starts from an interrupted publish of a target (staged or
\* backup entries present), then after its cleanup and a successful rerun of
\* the producing step the final artifact exists and no staged, temporary or
\* backup-suffixed entry of that target remains.
C9_AtomicPublishUnderInterruption ==
    (pc = "save_open" /\ InterruptedAtStart(CurStep.target)) =>
        /\ Ev("cleanup", "") \in Range(trace)
        /\ exists(fs, FinalPath(CurStep.target))
        /\ fs[FinalPath(CurStep.target)].stamp = now
        /\ \A r \in ResidueNames(CurStep.target) : ~exists(fs, r)

\* the run found prices_building and prices_old but no prices
C9_Witness ==
    /\ pc = "save_open" /\ CurStep.target = "prices"
    /\ exists(pre_fs, "prices_old") /\ exists(pre_fs, "prices_building")
    /\ ~exists(pre_fs, "prices")
    /\ exists(fs, "prices")

UnknownRequested == \E t \in Range(argv.targets) : t \notin known_targets

\* C10: a run, full or dry-run invocation that names a target no registered
\* step produces ends with an error status before cleanup and before any step,
\* and leaves the manifest (and the whole output directory) as it found it.
C10_UnknownTargetRejected ==
    (runs > 0 /\ ~argv.list_steps /\ UnknownRequested /\ pc # "main") =>
        /\ pc = "idle"
        /\ result \in {"sys.exit", "killed"}
        /\ exit_code # 0
        /\ Events({"cleanup", "load", "plan", "call"}) = <<>>
        /\ fs = pre_fs
        /\ OnDisk = content(pre_fs, MANIFEST_FILE)

C10_Witness ==
    /\ pc = "idle" /\ result = "sys.exit" /\ exit_code = 1
    /\ argv.full /\ argv.targets = <<"bogus">>
    /\ exists(fs, MANIFEST_FILE)

(***************************************************************************)
(* Command surface and error handling (checked under Spec).                *)
(***************************************************************************)
\* the invocation ended by itself: a return from main, sys.exit or a traceback
EndedByItself == pc = "idle" /\ runs > 0 /\ result # "killed"

\* C11 (as claimed): the build command exits with a nonzero status if and only
\* if the run aborted because a step failed; a successful run, nothing to do,
\* a dry run, a listing, a configuration error and a summary or manifest-write
\* problem all exit with status zero.
C11_ExitStatus ==
    EndedByItself => (exit_code # 0 <=> result = "False")

IsPrefix(s, t) == Len(s) <= Len(t) /\ s = SubSeq(t, 1, Len(s))

\* C13: a dry run with a non-empty plan logs exactly the steps that the same
\* command line without dry_run executes, in the same order; the dry run calls
\* no step function, opens no engine connection and leaves the persisted
\* manifest as it found it.
C13_DryRunNoBuildEffect ==
    /\ (runs > 0 /\ argv.dry_run /\ ~argv.list_steps) =>
          /\ Events({"call", "returned", "saved", "failed"}) = <<>>
          /\ con = 0
          /\ OnDisk = content(pre_fs, MANIFEST_FILE)
    /\ DryRunReported => Reported = PlanIds
    /\ (prev_dry # <<>> /\ Ev("plan", "") \in Range(trace)) =>
          /\ PlanIds = prev_dry[1]
          /\ IsPrefix(Called, prev_dry[1])
          /\ (pc = "idle" /\ result = "True") => Called = prev_dry[1]

\* a dry run of `prices` against a built database, then the same command
\* line without --dry-run
C13_Witness ==
    /\ prev_dry # <<>> /\ pc = "idle" /\ result = "True"
    /\ exists(pre_fs, MANIFEST_FILE)
    /\ Len(prev_dry[1]) >= 2
    /\ Called = prev_dry[1]

\* C14 (as claimed): every entry of a dry-run plan is annotated NEW exactly
\* when its step id is absent from the persisted manifest document and REBUILD
\* exactly when it is present there, whatever the requested targets and the
\* full-rebuild flag.
C14_DryRunAnnotation ==
    DryRunReported =>
        LET lines == Events({"NEW", "REBUILD"})
        IN  /\ Len(lines) = Len(steps_to_run)
            /\ \A k \in DOMAIN lines :
                  lines[k].ev = IF lines[k].id \in DOMAIN OnDisk.doc THEN "REBUILD" ELSE "NEW"

\* a name with a temporary, backup or building suffix or the staging prefix
StagingName(name) ==
    \/ \E suffix \in {".tmp", "_old", "_building"} : endswith(name, suffix)
    \/ startswith(name, "_")

\* C15: every run_build invocation performs cleanup_stale_artifacts before it
\* loads the manifest and before any step executes; when cleanup has returned
\* the output directory has no top-level entry whose name ends in .tmp, _old
\* or _building or starts with an underscore.
C15_CleanupFirst ==
    /\ \A n \in DOMAIN trace :
          trace[n].ev \in {"load", "plan", "call"} => (n > 1 /\ trace[1] = Ev("cleanup", ""))
    /\ pc \in {"load", "plan", "step", "func", "except", "save_open", "save_dump",
               "save_rename", "summary"} => trace # <<>> /\ trace[1] = Ev("cleanup", "")
    /\ pc \in {"load", "plan"} => \A name \in DOMAIN fs : ~StagingName(name)

\* the run found the residue of a prices swap that was killed between its renames
C15_Witness ==
    /\ pc = "load"
    /\ {"prices_old", "prices_building", "_prices_temp_fragments"} \subseteq DOMAIN pre_fs
    /\ \A name \in DOMAIN fs : ~StagingName(name)
    /\ exists(fs, "tickers.parquet")

\* the plan was made and every planned step was executed and saved
PlanCompleted ==
    /\ Ev("plan", "") \in Range(trace)
    /\ \A k \in DOMAIN steps_to_run : Ev("saved", PlannedId(k)) \in Range(trace)

\* C16 (as claimed): whatever run_summary does, raising included, a run_build
\* invocation whose planned steps all succeeded, or whose plan was empty,
\* returns success and leaves the manifest as the steps wrote it.
C16_SummaryCannotFail ==
    (EndedByItself /\ PlanCompleted) =>
        /\ result = "True" /\ exit_code = 0
        /\ steps_to_run # <<>> => OnDisk = Json(manifest)

\* C17 (as claimed): when the manifest write after a step, or an operation
\* inside a step, raises, run_build does not retry: it logs the failing step
\* id, returns failure and executes no later step.
C17_IOErrorsAreStepFailures ==
    (EndedByItself /\ Events({"save_error", "failed"}) # <<>>) =>
        /\ result = "False"
        /\ trace[Len(trace)] = Ev("failed", PlannedId(i))
        /\ Called = [k \in 1..i |-> PlannedId(k)]

\* the target of a registered step id
TargetOf(step_id) == _steps[CHOOSE k \in DOMAIN _steps : _steps[k].step_id = step_id].target

\* a complete, non-empty artifact at the final path of the target
PublishedNonEmpty(target) ==
    /\ exists(fs, FinalPath(target))
    /\ fs[FinalPath(target)].rows = "ok"

\* C19: an empty artifact makes the step raise: a step function returns, and
\* its id is written to the manifest in a run, only if the final artifact it
\* published in that run is non-empty.
C19_VerificationGatesSuccess ==
    /\ (pc = "func" /\ spc > Len(Prog)) =>
          /\ PublishedNonEmpty(CurStep.target)
          /\ fs[FinalPath(CurStep.target)].stamp = now
    /\ \A n \in DOMAIN trace :
          trace[n].ev \in {"returned", "saved"} => PublishedNonEmpty(TargetOf(trace[n].id))
    /\ \A n \in DOMAIN trace :
          trace[n].ev = "saved" => trace[n].id \in DOMAIN OnDisk.doc

\* prices published an empty directory after tickers was verified and saved:
\* the verification raised and prices is not recorded
C19_Witness ==
    /\ pc = "idle" /\ result = "False"
    /\ i = 2 /\ CurStep.step_id = "prices_v2"
    /\ exists(fs, "prices") /\ fs["prices"].rows = "empty" /\ fs["prices"].stamp = now
    /\ "prices_v2" \notin DOMAIN OnDisk.doc
    /\ "tickers_v1" \in DOMAIN OnDisk.doc /\ PublishedNonEmpty("tickers")

\* C20 (as claimed): after an invocation with the full-rebuild flag has ended,
\* by success or by aborting on a failing step, the persisted manifest holds
\* entries only for steps that completed during that invocation; no entry
\* from before the invocation survives.
C20_FullWipesManifest ==
    (EndedByItself /\ argv.full /\ ~argv.list_steps /\ ~argv.dry_run
        /\ result \in {"True", "False"}) =>
        \A id \in DOMAIN OnDisk.doc :
            /\ Ev("saved", id) \in Range(trace)
            /\ id \in DOMAIN PreDoc => OnDisk.doc[id] # PreDoc[id]

\* C21: for each planned step the executor opens one fresh connection and
\* closes it before the next step starts and before run_build returns, whether
\* the action returns or raises: never two executor connections at once, one
\* exactly while a step function runs, none in between and none at the end.
C21_ScopedEngineConnection ==
    /\ con \in {0, 1}
    /\ con = 1 <=> pc \in {"func", "except"}
    /\ result # "killed" =>
          Len(Events({"call"})) = Len(Events({"returned", "failed"})) + con

\* the second planned step runs on its own connection after the first was closed
C21_Witness ==
    /\ pc = "func" /\ i = 2 /\ con = 1
    /\ Len(Events({"call"})) = 2
    /\ Len(Events({"returned"})) = 1

\* the positions in the event history of the events of the given kinds
Pos(kinds) == SelectSeq([k \in DOMAIN trace |-> k], LAMBDA k : trace[k].ev \in kinds)

\* the steps called so far are the first steps of the plan, in plan order and
\* each once, and between two calls the earlier step has returned
Sequential ==
    /\ IsPrefix(Called, PlanIds)
    /\ \A j, k \in DOMAIN Called : Called[j] = Called[k] => j = k
    /\ \A k \in 2..Len(Called) :
          \E r \in (Pos({"call"})[k - 1] + 1)..(Pos({"call"})[k] - 1) :
              trace[r] = Ev("returned", Called[k - 1])
    /\ pc \in {"func", "except"} => Called # <<>> /\ Called[Len(Called)] = CurStep.step_id

\* the steps of an invocation that no fault interrupts
Proceed ==
    \/ ListSteps \/ RejectUnknown \/ Validated
    \/ CleanupItem \/ CleanupDone \/ LoadManifest \/ Plan
    \/ StepOpen
    \/ OpMkdirOut \/ OpRmIfExists \/ OpMkdir \/ OpWriteBegin \/ OpWriteEnd
    \/ OpRename \/ OpRmtree \/ OpVerify \/ OpIfExists \/ OpSkip
    \/ StepFailed \/ StepSucceeded
    \/ SaveOpen \/ SaveDump \/ SaveRename
    \/ Summary

\* an upper bound of the steps run_build takes for the planned steps from
\* position k on: the call, the operations of the step function, the return
\* and the three steps of the manifest save
RECURSIVE CostFrom(_)
CostFrom(k) ==
    IF k > Len(steps_to_run) THEN 0
    ELSE Len(Program(steps_to_run[k].func)) + 6 + CostFrom(k + 1)

RECURSIVE RegistryCost(_)
RegistryCost(k) ==
    IF k > Len(_steps) THEN 0
    ELSE Len(Program(_steps[k].func)) + 6 + RegistryCost(k + 1)

\* an upper bound of the steps the running invocation still takes
Variant ==
    CASE pc = "idle" -> 0
      [] pc = "summary" -> 1
      [] pc = "except" -> 1
      [] pc = "save_rename" -> 2 + CostFrom(i + 1)
      [] pc = "save_dump" -> 3 + CostFrom(i + 1)
      [] pc = "save_open" -> 4 + CostFrom(i + 1)
      [] pc = "func" -> 5 + (Len(Prog) + 1 - spc) + 1 + CostFrom(i + 1)
      [] pc = "step" -> 1 + CostFrom(i)
      [] pc = "plan" -> 2 + RegistryCost(1)
      [] pc = "load" -> 3 + RegistryCost(1)
      [] pc = "cleanup" -> 4 + RegistryCost(1) + Cardinality({n \in DOMAIN fs : IsStale(n)})
      [] pc = "main" -> 5 + RegistryCost(1) + Cardinality(DOMAIN fs)
      [] OTHER -> 0

\* C28: run_build executes the planned steps one at a time in plan order,
\* starts a step only after the previous one returned, executes each planned
\* step at most once and no step outside the plan; and it terminates: an
\* invocation that has not ended can always take a step of its own (the
\* planner call, which has no condition but its position, aside), and every
\* step it takes lowers a bound on the number of steps left, the step
\* functions being finite sequences of operations.
C28_SequentialExecution ==
    /\ []Sequential
    /\ [](pc # "idle" => Variant \in Nat /\ Variant > 0)
    /\ [](pc \notin {"idle", "plan"} => ENABLED Proceed)
    /\ [][pc # "idle" => Variant' < Variant]_vars

\* the third planned step is running after the first two returned, in plan order
C28_Witness ==
    /\ pc = "func" /\ i = 3
    /\ Len(steps_to_run) >= 3
    /\ Called = SubSeq(PlanIds, 1, 3)
    /\ Len(Events({"returned"})) = 2

\* the positions in the event history at which run_summary was invoked
SummaryCalls == Pos({"summary", "summary_error"})

\* C29: in a run of run_build that is not a dry run, run_summary is invoked
\* at most once, as the last thing the run does, and only after every planned
\* step has returned and its manifest entry has been persisted (directly after
\* planning when the plan is empty); it is invoked exactly once when the run
\* returns success, and never when the run aborted on a step failure.
C29_SummaryTiming ==
    /\ Len(SummaryCalls) <= 1
    /\ SummaryCalls # <<>> =>
          /\ pc = "idle" /\ SummaryCalls[1] = Len(trace)
          /\ PlanCompleted
          /\ Events({"failed"}) = <<>>
          /\ Called = PlanIds
          /\ IF steps_to_run = <<>>
             THEN trace[Len(trace) - 1] = Ev("plan", "")
             ELSE /\ trace[Len(trace) - 1] = Ev("saved", PlannedId(Len(steps_to_run)))
                  /\ \A k \in DOMAIN steps_to_run : PlannedId(k) \in DOMAIN OnDisk.doc
    /\ result = "False" => SummaryCalls = <<>>
    /\ (pc = "idle" /\ result = "True" /\ ~argv.dry_run) => Len(SummaryCalls) = 1

\* a build of several steps has ended with the summary, after the last save
C29_Witness ==
    /\ pc = "idle" /\ result = "True" /\ ~argv.dry_run
    /\ Len(steps_to_run) >= 2
    /\ trace[Len(trace)] = Ev("summary", "")
    /\ trace[Len(trace) - 1] = Ev("saved", PlannedId(Len(steps_to_run)))

(***************************************************************************)
(* Artifact claims (checked under Spec).                                   *)
(***************************************************************************)
\* the staging, temporary and backup paths of the step that produces target t
StagingPaths(t) ==
    {t \o ".parquet.tmp", t \o "_building", t \o "_old"}
        \cup (IF t = "prices" THEN {"_prices_temp_fragments"} ELSE {})

\* the step function of the running step has returned and nothing has touched
\* the output directory since
JustReturned == (pc = "func" /\ spc > Len(Prog)) \/ pc = "save_open"

\* C31: when a step function returns, the final artifact of its target
\* exists and none of the step's staging, temporary and backup paths does.
C31_ArtifactLifecycle ==
    JustReturned =>
        /\ exists(fs, FinalPath(CurStep.target))
        /\ \A p \in StagingPaths(CurStep.target) : ~exists(fs, p)

\* the prices step has returned after it superseded the copy of an earlier run
C31_Witness ==
    /\ pc = "save_open"
    /\ CurStep.target = "prices"
    /\ exists(pre_fs, "prices") /\ exists(fs, "prices")
    /\ fs["prices"].stamp = now /\ pre_fs["prices"].stamp < now

\* the paths derived from the name of target t: the final path, the staging,
\* temporary and backup paths, and the single-file name of an earlier version
Owned(t) == {FinalPath(t), t \o ".parquet"} \cup StagingPaths(t)

\* the entries of the output directory that differ between f and g
Touched(f, g) == {n \in DOMAIN f \cup DOMAIN g : content(f, n) # content(g, n)}

\* a step taken while a step function runs changes only paths of its target
TouchesOwnPaths ==
    pc \in {"func", "except"} => Touched(fs, fs') \subseteq Owned(CurStep.target)

\* C32: the paths of different registered targets are disjoint and none is
\* the manifest, and while a step function runs every entry of the output
\* directory that is created, renamed, rewritten or deleted is a path of
\* the running step's own target.
C32_ExclusiveOwnership ==
    /\ [](\A j, k \in DOMAIN _steps :
             /\ MANIFEST_FILE \notin Owned(_steps[k].target)
             /\ j # k => Owned(_steps[j].target) \cap Owned(_steps[k].target) = {})
    /\ [][TouchesOwnPaths]_vars

\* the daily_aggs step is between the two renames of its swap; the artifacts
\* of tickers and prices are as the steps before it left them
C32_Witness ==
    /\ pc = "func" /\ CurStep.target = "daily_aggs"
    /\ exists(fs, "daily_aggs_old") /\ exists(fs, "daily_aggs_building")
    /\ exists(fs, "prices") /\ exists(fs, "tickers.parquet")
    /\ Called = <<"tickers_v1", "prices_v2", "daily_aggs_v2">>

\* C33 (as claimed): when a step function raises, at whatever point, the
\* final path of its target holds what it held when the run started (no
\* other step and no cleanup touches that path): the complete artifact that
\* was published there before, or nothing.
C33_FailedStepKeepsArtifact ==
    pc = "except" =>
        content(fs, FinalPath(CurStep.target)) = content(pre_fs, FinalPath(CurStep.target))

\* C34 (as claimed): whenever an invocation that is not a dry run ends
\* successfully, after any sequence of earlier invocations, the manifest
\* records for every registered step a completion later than the completion
\* of each step that produces one of its dependency targets.
C34_DownstreamFreshness ==
    (pc = "idle" /\ result = "True" /\ ~argv.dry_run) =>
        \A k, j \in DOMAIN _steps :
            _steps[j].target \in _steps[k].depends_on =>
                /\ _steps[k].step_id \in DOMAIN OnDisk.doc
                /\ _steps[j].step_id \in DOMAIN OnDisk.doc
                /\ OnDisk.doc[_steps[k].step_id].completed_at
                      > OnDisk.doc[_steps[j].step_id].completed_at

\* the ids of the steps whose function returned in the current invocation
ReturnedIds == {Events({"returned"})[k].id : k \in DOMAIN Events({"returned"})}

\* C35 (checked under SpecLegacy): during and after a run of run_build
\* without the full-rebuild flag the persisted manifest holds every entry it
\* held when the run started, and an entry that is new or differs belongs to
\* a step whose function returned in this run; the entries of steps outside
\* the plan and of ids that are no longer registered are unchanged.
C35_ManifestFrame ==
    (runs > 0 /\ ~argv.full /\ ~argv.list_steps) =>
        /\ DOMAIN PreDoc \subseteq DOMAIN OnDisk.doc
        /\ \A id \in DOMAIN OnDisk.doc :
              (id \notin DOMAIN PreDoc \/ OnDisk.doc[id] # PreDoc[id]) =>
                  /\ id \in ReturnedIds
                  /\ id \in Range(PlanIds)
        /\ \A id \in DOMAIN PreDoc \ RegisteredIds : OnDisk.doc[id] = PreDoc[id]

\* a run that rebuilt market_cap alone has ended: its entry is new, the
\* entries of the other steps and of the retired id are as the run found them
C35_Witness ==
    /\ pc = "idle" /\ result = "True" /\ ~argv.full /\ ~argv.dry_run
    /\ PlanIds = <<"market_cap_v2">>
    /\ DOMAIN PreDoc = RegisteredIds \cup RetiredIds
    /\ OnDisk.doc["market_cap_v2"] # PreDoc["market_cap_v2"]
    /\ \A id \in DOMAIN PreDoc \ {"market_cap_v2"} : OnDisk.doc[id] = PreDoc[id]

\* the final artifact paths of the registered targets
FinalPaths == {FinalPath(_steps[k].target) : k \in DOMAIN _steps}

\* a step of cleanup_stale_artifacts removes residue and nothing else
CleanupRemovesResidueOnly ==
    pc = "cleanup" =>
        \A n \in Touched(fs, fs') :
            /\ IsStale(n) /\ ~exists(fs', n)
            /\ n # MANIFEST_FILE /\ n \notin FinalPaths

\* C36: neither the manifest nor the final artifact of a registered target
\* (tickers.parquet, prices, daily_aggs, hundred_day_aggs.parquet,
\* market_cap.parquet, insider_trades.parquet) matches a residue pattern,
\* and every step of cleanup_stale_artifacts only removes top-level entries
\* that match one.
C36_CleanupFrame ==
    /\ [](/\ FinalPaths = {"tickers.parquet", "prices", "daily_aggs", "hundred_day_aggs.parquet",
                           "market_cap.parquet", "insider_trades.parquet"}
          /\ \A n \in FinalPaths \cup {MANIFEST_FILE} : ~IsStale(n))
    /\ [][CleanupRemovesResidueOnly]_vars

\* the cleanup of a run after a killed one has removed the backup of prices
\* and is not finished; the manifest and the published artifacts are in place
C36_Witness ==
    /\ pc = "cleanup"
    /\ exists(pre_fs, "prices_old") /\ ~exists(fs, "prices_old")
    /\ exists(fs, "prices_building")
    /\ exists(fs, MANIFEST_FILE) /\ fs[MANIFEST_FILE] = pre_fs[MANIFEST_FILE]
    /\ exists(fs, "tickers.parquet") /\ fs["tickers.parquet"] = pre_fs["tickers.parquet"]

(***************************************************************************)
(* The traversal loop (checked under SpecBfs).                             *)
(***************************************************************************)
\* the targets in the order the loop added them to visited
Visits == [k \in DOMAIN Events({"visit"}) |-> Events({"visit"})[k].id]

\* C25: get_downstream_targets terminates for every registry and every
\* target, registries with a dependency cycle included; on the way it
\* visits each target at most once, and it returns what the traversal
\* function computes.
C25_DownstreamTerminates ==
    /\ [](\A j, k \in DOMAIN Visits : Visits[j] = Visits[k] => j = k)
    /\ [](pc = "returned" => downstream = get_downstream_targets(argv.targets[1]))
    /\ <>(pc = "returned")

\* the call has returned for a target that lies on a cycle of three steps
C25_Witness ==
    /\ pc = "returned"
    /\ Len(_steps) = 3
    /\ _steps[1].depends_on = {"c"} /\ _steps[2].depends_on = {"a"} /\ _steps[3].depends_on = {"b"}
    /\ argv.targets[1] = "a"
    /\ Visits = <<"a", "b", "c">>
    /\ downstream = {"b", "c"}

\* C24: the shipped registry, imported in sorted file name order, holds six
\* steps with pairwise distinct ids, every target is produced by exactly one
\* step, and every dependency of a step is produced by a step registered
\* before it.
C24_ShippedRegistryWellFormed ==
    /\ _steps = ShippedSteps
    /\ Len(_steps) = 6
    /\ \A j, k \in DOMAIN _steps : _steps[j].step_id = _steps[k].step_id => j = k
    /\ \A k \in DOMAIN _steps :
          Cardinality({j \in DOMAIN _steps : _steps[j].target = _steps[k].target}) = 1
    /\ \A k \in DOMAIN _steps : \A d \in _steps[k].depends_on :
          \E j \in 1..(k - 1) : _steps[j].target = d

\* a full build has called the six steps in registration order
C24_Witness ==
    /\ pc = "idle" /\ result = "True" /\ argv.full
    /\ Called = [k \in 1..6 |-> _steps[k].step_id]
    /\ Called[1] = "tickers_v1" /\ Called[6] = "insider_trades_v2"

(***************************************************************************)
(* Dependency index (checked under SpecDownstream).                        *)
(***************************************************************************)
\* the targets of the steps that declare t as a dependency
DirectDependents(t) ==
    {_steps[k].target : k \in {j \in DOMAIN _steps : t \in _steps[j].depends_on}}

Diamond ==
    << Step("A", "a", {}, "fn"), Step("B", "b", {"a"}, "fn"),
       Step("C", "c", {"a"}, "fn"), Step("D", "d", {"b", "c"}, "fn") >>

\* C12: for every registry and target t, get_downstream_targets(t) is the set
\* of targets reachable from t by one or more reverse-dependency edges, without
\* t itself and with every target once; for the diamond A->B, A->C, B->D, C->D
\* the result for A's target is {B, C, D}.
C12_DownstreamClosure ==
    pc = "returned" =>
        LET t == argv.targets[1]
        IN  /\ downstream = DownstreamClosure(DirectDependents(t)) \ {t}
            /\ t \notin downstream
            /\ _steps = Diamond /\ t = "a" =>
                  downstream = {"b", "c", "d"} /\ Cardinality(downstream) = 3

C12_Witness ==
    /\ pc = "returned"
    /\ _steps = Diamond /\ argv.targets = <<"a">>
    /\ downstream = {"b", "c", "d"}

\* t lies on a cycle of the dependency graph
OnCycle(t) == t \in DownstreamClosure(DirectDependents(t))

\* C26 (as claimed): for a target on a dependency cycle the computation
\* of its downstream set fails with a configuration error instead of
\* returning a result, so no call for such a target ever returns.
C26_CycleDetected ==
    pc = "returned" => ~OnCycle(argv.targets[1])

(***************************************************************************)
(* Step registry (checked under SpecRegister).                             *)
(***************************************************************************)
\* C18 (as claimed): registering a step whose id is already in the registry
\* fails with a configuration error and leaves the registry unchanged, so the
\* step ids of the registry are always pairwise distinct.
C18_DuplicateStepIdRejected ==
    \A j, k \in DOMAIN _steps : j # k => _steps[j].step_id # _steps[k].step_id

====
